---- MODULE Spec2Model ----
(***************************************************************************)
(* Service-to-invoice workflow of AutoCarV9: the service-visit routes and   *)
(* the service page's status form (part 1), the invoice lifecycle routes   *)
(* (part 2), the request-level interleaving of payment recording (part 3), *)
(* coupon redemption (parts 4 and 5), warranty-card sync (part 6), the     *)
(* part resolver (part 7), invoice snapshots (part 8), visit transitions   *)
(* request by request (part 9) and the approve route step by step          *)
(* (part 10).  Each part has its own specification over the shared store.  *)
(***************************************************************************)
EXTENDS Integers, Sequences, FiniteSets, TLC

VARIABLES
    visits,      \* ServiceVisit collection: id -> document or NoDoc
    invoices,    \* Invoice collection: id -> document or NoDoc
    warranties,  \* Warranty collection: the documents in creation order
    coupons,     \* Coupon collection: code -> document
    vehicles,    \* RegistrationVehicle collection: id -> document
    customers,   \* RegistrationCustomer collection: id -> document or NoDoc
    products,    \* Product collection: id -> document or NoDoc
    pdfFiles,    \* rendered PDF artifacts present on disk
    now,         \* wall clock, in days
    reqs,        \* the requests under way, in the shape the specification at hand gives them
    resp         \* the last HTTP response (or UI toast) and what it answered

vars == <<visits, invoices, warranties, coupons, vehicles, customers, products,
         pdfFiles, now, reqs, resp>>

\* ------------------------------------------------------------------------
\* Bounds of the model
\* ------------------------------------------------------------------------
MaxImages == 1        \* longest image list a request carries
MaxPayments == 2      \* ledger entries recorded on one invoice
MaxAmount == 2        \* largest payment amount a request carries
MaxCards == 1         \* warranty cards uploaded per invoice line item
MaxNow == 8           \* last day the clock reaches
MaxReqs == 2          \* payment requests in flight at once
MaxCap == 2           \* largest per-customer cap of a coupon
MaxIds == 2           \* part identifiers in one resolve request

NoDoc == [exists |-> FALSE]
None == "none"

\* optional request fields: {} is `undefined`, {x} carries x
Undefined == {}
Some(x) == {x}
Get(opt) == CHOOSE x \in opt : TRUE
OrElse(opt, old) == IF opt = {} THEN old ELSE Get(opt)

\* the lists of up to n copies of one element of S
ListsUpTo(S, n) == {<<>>} \cup {[i \in 1..k |-> x] : k \in 1..n, x \in S}

RECURSIVE SumSeq(_)
SumSeq(s) == IF s = <<>> THEN 0 ELSE Head(s) + SumSeq(Tail(s))

NoResp == [op |-> "init", via |-> None, code |-> 0, id |-> None,
           target |-> None, amount |-> 0, arg |-> None]

\* an answer that also records one more argument of the request it answers
\* (the payment method, the access token)
ReplyWith(op, via, code, id, target, amount, arg) ==
    [op |-> op, via |-> via, code |-> code, id |-> id,
     target |-> target, amount |-> amount, arg |-> arg]

Reply(op, via, code, id, target, amount) == ReplyWith(op, via, code, id, target, amount, None)

\* ========================================================================
\* Part 1: service visits
\* ========================================================================
VisitIds == {"V1"}
Handlers == {"E1"}
Customers == {"C1"}
Statuses == {"inquired", "working", "waiting", "completed"}

\* an image string is one of three kinds: an already stored http(s) URL, a
\* well-formed base64 data URI under the size limit, or anything else
ImageKinds == {"url", "b64", "bad"}

\* validateImages: every image is a URL or a well-formed data URI
validateImages(images) == \A i \in 1..Len(images) : images[i] # "bad"

\* pre('save') hook of the ServiceVisit model: a changed status stamps its
\* phase; earlier stamps are kept
StampStage(stamps, oldStatus, newStatus) ==
    IF newStatus # oldStatus THEN stamps \cup {newStatus} ELSE stamps

PatchBodies ==
    [status : {Undefined} \cup {Some(s) : s \in Statuses},
     handlerIds : {Undefined} \cup {Some(h) : h \in SUBSET Handlers},
     beforeImages : {Undefined} \cup {Some(l) : l \in ListsUpTo(ImageKinds, MaxImages)},
     afterImages : {Undefined} \cup {Some(l) : l \in ListsUpTo(ImageKinds, MaxImages)}]

TargetOf(body) == IF body.status = {} THEN None ELSE Get(body.status)

\* POST /api/service-visits: ServiceVisit.create(req.body)
CreateBodies ==
    [customerId : Customers, status : Statuses, handlerIds : SUBSET Handlers]

PostServiceVisit(id, via, body) ==
    /\ ~visits[id].exists
    /\ visits' = [visits EXCEPT ![id] =
                    [exists |-> TRUE,
                     customerId |-> body.customerId,
                     status |-> body.status,
                     handlerIds |-> body.handlerIds,
                     beforeImages |-> <<>>,
                     afterImages |-> <<>>,
                     stageTimestamps |-> {body.status}]]
    /\ resp' = Reply("postVisit", via, 200, id, body.status, 0)
    /\ UNCHANGED <<customers, products, invoices, warranties, coupons, vehicles, pdfFiles, now, reqs>>

\* PATCH /api/service-visits/:id.  notes, partsUsed and totalAmount are copied
\* from the body like the other fields; no check of the handler reads them
\* and they are left out of the document here.
PatchServiceVisit(id, via, body) ==
    LET visit == visits[id]
        target == TargetOf(body)
    IN  /\ IF ~visit.exists
             THEN /\ resp' = Reply("patchVisit", via, 404, id, target, 0)
                  /\ UNCHANGED visits
           ELSE IF body.beforeImages # {} /\ ~validateImages(Get(body.beforeImages))
             THEN /\ resp' = Reply("patchVisit", via, 400, id, target, 0)
                  /\ UNCHANGED visits
           ELSE IF body.afterImages # {} /\ ~validateImages(Get(body.afterImages))
             THEN /\ resp' = Reply("patchVisit", via, 400, id, target, 0)
                  /\ UNCHANGED visits
           ELSE
                  /\ visits' = [visits EXCEPT ![id] =
                       [visit EXCEPT
                          !.status = OrElse(body.status, visit.status),
                          !.beforeImages = OrElse(body.beforeImages, visit.beforeImages),
                          !.afterImages = OrElse(body.afterImages, visit.afterImages),
                          !.handlerIds = OrElse(body.handlerIds, visit.handlerIds),
                          !.stageTimestamps =
                              StampStage(visit.stageTimestamps, visit.status,
                                         OrElse(body.status, visit.status))]]
                  /\ resp' = Reply("patchVisit", via, 200, id, target, 0)
        /\ UNCHANGED <<customers, products, invoices, warranties, coupons, vehicles, pdfFiles, now, reqs>>

\* DELETE /api/service-visits/:id
DeleteServiceVisit(id) ==
    /\ IF visits[id].exists
         THEN /\ visits' = [visits EXCEPT ![id] = NoDoc]
              /\ resp' = Reply("deleteVisit", "api", 200, id, None, 0)
         ELSE /\ resp' = Reply("deleteVisit", "api", 404, id, None, 0)
              /\ UNCHANGED visits
    /\ UNCHANGED <<customers, products, invoices, warranties, coupons, vehicles, pdfFiles, now, reqs>>

\* the service page's create form: a non-inquired status needs a handler
handleCreateService(id, serviceForm) ==
    IF serviceForm.status # "inquired" /\ serviceForm.handlerIds = {}
      THEN /\ resp' = Reply("handleCreateService", "ui", 0, id, serviceForm.status, 0)
           /\ UNCHANGED <<customers, products, visits, invoices, warranties, coupons, vehicles,
                          pdfFiles, now, reqs>>
      ELSE PostServiceVisit(id, "ui", serviceForm)

\* the service page's edit form
Toast(id, selectedStatus) ==
    /\ resp' = Reply("handleStatusUpdate", "ui", 0, id, selectedStatus, 0)
    /\ UNCHANGED <<customers, products, visits, invoices, warranties, coupons, vehicles, pdfFiles, now, reqs>>

\* an edit form that lets a visit move forward only
handleStatusUpdateForwardOnly(id, selectedStatus, selectedHandlers, beforeImages, afterImages) ==
    LET selectedService == visits[id]
        Rank(status) == CASE status = "inquired" -> 0
                          [] status = "working" -> 1
                          [] status = "waiting" -> 2
                          [] OTHER -> 3
    IN  /\ selectedService.exists
        /\ IF Rank(selectedStatus) < Rank(selectedService.status)
             THEN Toast(id, selectedStatus)
           ELSE IF selectedStatus # "inquired" /\ selectedHandlers = {}
             THEN Toast(id, selectedStatus)
           ELSE IF selectedStatus \in {"working", "waiting"} /\ Len(beforeImages) = 0
             THEN Toast(id, selectedStatus)
           ELSE IF selectedStatus = "completed" /\ Len(afterImages) = 0
             THEN Toast(id, selectedStatus)
           ELSE IF /\ selectedStatus = selectedService.status
                   /\ beforeImages = selectedService.beforeImages
                   /\ afterImages = selectedService.afterImages
                   /\ selectedHandlers = selectedService.handlerIds
             THEN Toast(id, selectedStatus)
           ELSE PatchServiceVisit(id, "ui",
                    [status |-> Some(selectedStatus),
                     beforeImages |-> Some(beforeImages),
                     afterImages |-> Some(afterImages),
                     handlerIds |-> Some(selectedHandlers)])

\* handleStatusUpdate of the service page (part_000 1204-1262)
handleStatusUpdate(id, selectedStatus, selectedHandlers, beforeImages, afterImages) ==
    LET selectedService == visits[id]
    IN  /\ selectedService.exists
        /\ IF selectedStatus # "inquired" /\ selectedHandlers = {}
             THEN Toast(id, selectedStatus)
           ELSE IF selectedStatus \in {"working", "waiting"} /\ Len(beforeImages) = 0
             THEN Toast(id, selectedStatus)
           ELSE IF selectedStatus = "completed" /\ Len(afterImages) = 0
             THEN Toast(id, selectedStatus)
           ELSE IF /\ selectedStatus = selectedService.status
                   /\ beforeImages = selectedService.beforeImages
                   /\ afterImages = selectedService.afterImages
                   /\ selectedHandlers = selectedService.handlerIds
             THEN Toast(id, selectedStatus)
           ELSE PatchServiceVisit(id, "ui",
                    [status |-> Some(selectedStatus),
                     beforeImages |-> Some(beforeImages),
                     afterImages |-> Some(afterImages),
                     handlerIds |-> Some(selectedHandlers)])

\* images the edit form can hold: the stored ones or freshly compressed uploads
FormImages == ListsUpTo({"url", "b64"}, MaxImages)

ApiPostVisit == \E id \in VisitIds, body \in CreateBodies : PostServiceVisit(id, "api", body)
ApiPatchVisit == \E id \in VisitIds, body \in PatchBodies : PatchServiceVisit(id, "api", body)
ApiDeleteVisit == \E id \in VisitIds : DeleteServiceVisit(id)
UiCreateVisit ==
    \E id \in VisitIds, form \in CreateBodies :
        ~visits[id].exists /\ handleCreateService(id, form)
UiStatusUpdate ==
    \E id \in VisitIds, s \in Statuses, h \in SUBSET Handlers,
       b \in FormImages, a \in FormImages :
        handleStatusUpdate(id, s, h, b, a)

\* the registered customers and the stocked products the specifications start
\* from: P1 carries a warranty text, P2 none
RegisteredCustomers ==
    [c \in {"C1", "C2"} |-> [exists |-> TRUE, fullName |-> "name", mobileNumber |-> "mobile"]]
StockedProducts ==
    [p \in {"P1", "P2"} |->
        [exists |-> TRUE, name |-> p, warranty |-> IF p = "P1" THEN "6 months" ELSE None]]

InitStore ==
    /\ invoices = [i \in {"I1"} |-> NoDoc]
    /\ warranties = <<>>
    /\ coupons = <<>>
    /\ vehicles = <<>>
    /\ pdfFiles = {}
    /\ now = 0
    /\ reqs = <<>>
    /\ customers = RegisteredCustomers
    /\ products = StockedProducts
    /\ resp = NoResp

InitVisit ==
    /\ visits = [v \in VisitIds |-> NoDoc]
    /\ InitStore

NextVisit ==
    \/ ApiPostVisit
    \/ ApiPatchVisit
    \/ ApiDeleteVisit
    \/ UiCreateVisit
    \/ UiStatusUpdate

SpecVisit == InitVisit /\ [][NextVisit]_vars

NonInquired == {"working", "waiting", "completed"}

\* the last response is an accepted PATCH of visit id towards one of targets
AcceptedPatch(id, targets) ==
    /\ resp.op = "patchVisit"
    /\ resp.id = id
    /\ resp.code = 200
    /\ resp.target \in targets

\* C1: an update towards working, waiting or completed that leaves the visit
\* without handlers is never accepted: after every accepted PATCH with such
\* a target the stored visit has at least one handler.
C1_ZeroHandlersRejected ==
    \A id \in VisitIds :
        AcceptedPatch(id, NonInquired) => visits[id].handlerIds # {}

\* C2: an update towards working or waiting that leaves the visit without
\* before-images is never accepted: after every accepted PATCH with such a
\* target the stored visit has at least one before-image.
C2_ZeroBeforeImagesRejected ==
    \A id \in VisitIds :
        AcceptedPatch(id, {"working", "waiting"}) => Len(visits[id].beforeImages) >= 1

\* C3: an update to completed that leaves the visit without after-images is
\* never accepted, and an accepted one has stamped stageTimestamps.completed.
C3_CompletedNeedsAfterImage ==
    \A id \in VisitIds :
        AcceptedPatch(id, {"completed"}) =>
            /\ Len(visits[id].afterImages) >= 1
            /\ "completed" \in visits[id].stageTimestamps

\* ========================================================================
\* Part 2: invoices
\* ========================================================================
InvoiceIds == {"I1"}
Users == {"U1"}
TokenExpiryDays == 7
TickDays == TokenExpiryDays + 1
Tokens == {"t1", "t2"}

\* the Product collection (fixed here): P1 carries a warranty text, P2 none;
\* "side-step" is a predefined catalog part and no Product document
ProductWarranty == [p \in DOMAIN StockedProducts |-> StockedProducts[p].warranty]
ProductIds == DOMAIN ProductWarranty

\* parseInt(product.warranty.match(/\d+/)?.[0] || '12')
DurationMonths(warranty) ==
    CASE warranty = "6 months" -> 6
      [] warranty = "lifetime" -> 12
      [] OTHER -> 12

Item(productId, type, total, hasWarranty) ==
    [productId |-> productId, type |-> type, total |-> total,
     hasWarranty |-> hasWarranty, warrantyCards |-> <<>>]

\* the item lists a creation request carries (line totals come from the caller)
ItemLists ==
    {<<Item("P1", "product", 2, TRUE), Item("side-step", "product", 1, TRUE)>>,
     <<Item("P2", "product", 1, TRUE), Item(None, "service", 1, FALSE)>>}

RECURSIVE SumTotals(_)
\* items.reduce((sum, item) => sum + item.total, 0)
SumTotals(items) ==
    IF items = <<>> THEN 0 ELSE Head(items).total + SumTotals(Tail(items))

\* String.prototype.toUpperCase on the coupon codes of the model
toUpperCase(code) ==
    CASE code = "save1" -> "SAVE1"
      [] code = "nope" -> "NOPE"
      [] OTHER -> code

CouponCodes == {"SAVE1"}

\* Coupon.isValid(customerId, purchaseAmount)
CustomerUses(coupon, customerId) ==
    Cardinality({i \in 1..Len(coupon.usageHistory) :
                    coupon.usageHistory[i].customerId = customerId})

isValid(coupon, customerId, purchaseAmount) ==
    /\ coupon.isActive
    /\ coupon.validFrom <= now /\ now <= coupon.validUntil
    /\ coupon.usedCount < coupon.usageLimit
    /\ CustomerUses(coupon, customerId) < coupon.perCustomerLimit
    /\ purchaseAmount >= coupon.minPurchaseAmount

Min(a, b) == IF a <= b THEN a ELSE b

\* Coupon.calculateDiscount(purchaseAmount)
calculateDiscount(coupon, purchaseAmount) ==
    IF coupon.discountType = "percentage"
      THEN Min((purchaseAmount * coupon.discountValue) \div 100, purchaseAmount)
      ELSE Min(coupon.discountValue, purchaseAmount)

NoApproval == [approvedBy |-> None, approvedAt |-> -1,
               rejectedBy |-> None, rejectedAt |-> -1, rejectionReason |-> None]

Lookup(id) == IF id \in DOMAIN invoices THEN invoices[id] ELSE NoDoc

\* a coupon step that applies every coupon it finds, without coupon.isValid
CouponOutcomeNoValidation(couponCode, customer, subtotal) ==
    LET code == IF couponCode = None THEN None ELSE toUpperCase(couponCode)
        applies == couponCode # None /\ code \in DOMAIN coupons
    IN  [discountAmount |-> IF applies THEN calculateDiscount(coupons[code], subtotal) ELSE 0,
         couponId |-> IF applies THEN code ELSE None,
         discountType |-> IF applies THEN coupons[code].discountType ELSE None,
         discountValue |-> IF applies THEN coupons[code].discountValue ELSE 0]

\* lines 4452-4469: the coupon a creation request applies.  The code is
\* looked up in upper case; a coupon that is missing or does not validate
\* leaves the discount at 0 and the coupon reference null
CouponOutcome(couponCode, customer, subtotal) ==
    LET code == IF couponCode = None THEN None ELSE toUpperCase(couponCode)
        applies == /\ couponCode # None
                   /\ code \in DOMAIN coupons
                   /\ isValid(coupons[code], customer, subtotal)
    IN  [discountAmount |-> IF applies THEN calculateDiscount(coupons[code], subtotal) ELSE 0,
         couponId |-> IF applies THEN code ELSE None,
         discountType |-> IF applies THEN coupons[code].discountType ELSE None,
         discountValue |-> IF applies THEN coupons[code].discountValue ELSE 0]

\* lines 4415-4430: the populated customer's fields, copied onto the invoice
CustomerDetails(customer) ==
    [fullName |-> customers[customer].fullName,
     mobileNumber |-> customers[customer].mobileNumber]

\* an invoice document whose dueAmount is initialised from the subtotal
NewInvoiceDueSubtotal(serviceVisitId, customer, vehicleDetails, items, couponCode, outcome) ==
    LET subtotal == SumTotals(items)
        totalAmount == subtotal - outcome.discountAmount
    IN  [exists |-> TRUE,
         serviceVisitId |-> serviceVisitId,
         customerId |-> customer,
         customerDetails |-> CustomerDetails(customer),
         vehicleDetails |-> vehicleDetails,
         items |-> items,
         subtotal |-> subtotal,
         discountType |-> outcome.discountType,
         discountValue |-> outcome.discountValue,
         discountAmount |-> outcome.discountAmount,
         couponCode |-> IF couponCode = None THEN None ELSE toUpperCase(couponCode),
         couponId |-> outcome.couponId,
         totalAmount |-> totalAmount,
         paidAmount |-> 0,
         dueAmount |-> subtotal,
         status |-> "pending_approval",
         paymentStatus |-> "unpaid",
         paymentMethod |-> None,
         payments |-> <<>>,
         approvalStatus |-> NoApproval,
         pdfAccessToken |-> None,
         pdfTokenExpiry |-> -1,
         pdfPath |-> None]

\* lines 4472-4496: the document `new Invoice({...})` builds
NewInvoice(serviceVisitId, customer, vehicleDetails, items, couponCode, outcome) ==
    LET subtotal == SumTotals(items)
        totalAmount == subtotal - outcome.discountAmount
    IN  [exists |-> TRUE,
         serviceVisitId |-> serviceVisitId,
         customerId |-> customer,
         customerDetails |-> CustomerDetails(customer),
         vehicleDetails |-> vehicleDetails,
         items |-> items,
         subtotal |-> subtotal,
         discountType |-> outcome.discountType,
         discountValue |-> outcome.discountValue,
         discountAmount |-> outcome.discountAmount,
         couponCode |-> IF couponCode = None THEN None ELSE toUpperCase(couponCode),
         couponId |-> outcome.couponId,
         totalAmount |-> totalAmount,
         paidAmount |-> 0,
         dueAmount |-> totalAmount,
         status |-> "pending_approval",
         paymentStatus |-> "unpaid",
         paymentMethod |-> None,
         payments |-> <<>>,
         approvalStatus |-> NoApproval,
         pdfAccessToken |-> None,
         pdfTokenExpiry |-> -1,
         pdfPath |-> None]

\* line 4395: populate('customerId') leaves null where the visit names no
\* customer or the customer document is gone
Populated(serviceVisit) ==
    IF serviceVisit.customerId = None THEN None
    ELSE IF serviceVisit.customerId \in DOMAIN customers
              /\ customers[serviceVisit.customerId].exists
      THEN serviceVisit.customerId
    ELSE None

\* a snapshot that copies the vehicles of every customer
VehicleDetailsUnfiltered(customer) ==
    {[vehicleId |-> vehicles[v].vehicleId,
      selectedParts |-> vehicles[v].selectedParts] :
         v \in {w \in DOMAIN vehicles : vehicles[w].exists}}

\* lines 4408-4447: the vehicles of the customer, copied onto the invoice
VehicleDetails(customer) ==
    {[vehicleId |-> vehicles[v].vehicleId,
      selectedParts |-> vehicles[v].selectedParts] :
         v \in {w \in DOMAIN vehicles :
                   vehicles[w].exists /\ vehicles[w].customerId = customer}}

\* lines 4501-4512: Coupon.findByIdAndUpdate with $inc usedCount and $push
\* usageHistory in one update
Redeemed(couponId, invoiceId, customer, discountAmount) ==
    [coupons EXCEPT
       ![couponId].usedCount = @ + 1,
       ![couponId].usageHistory =
           Append(@, [invoiceId |-> invoiceId,
                      customerId |-> customer,
                      discountApplied |-> discountAmount])]

\* a creation route that forgets the `status !== 'completed'` check
CreateInvoiceAnyVisitStatus(newId, serviceVisitId, items, couponCode) ==
    LET serviceVisit == IF serviceVisitId \in DOMAIN visits
                          THEN visits[serviceVisitId] ELSE NoDoc
    IN
    /\ ~invoices[newId].exists
    /\ IF ~serviceVisit.exists
         THEN /\ resp' = Reply("createInvoice", "api", 404, newId, serviceVisitId, 0)
              /\ UNCHANGED <<invoices, coupons>>
       ELSE IF Populated(serviceVisit) = None
         THEN /\ resp' = Reply("createInvoice", "api", 400, newId, serviceVisitId, 0)
              /\ UNCHANGED <<invoices, coupons>>
       ELSE
         LET customer == serviceVisit.customerId
             outcome == CouponOutcome(couponCode, customer, SumTotals(items))
         IN
         /\ invoices' = [invoices EXCEPT ![newId] =
               NewInvoice(serviceVisitId, customer, VehicleDetails(customer),
                          items, couponCode, outcome)]
         /\ coupons' = IF outcome.couponId # None
                         THEN Redeemed(outcome.couponId, newId, customer,
                                       outcome.discountAmount)
                         ELSE coupons
         /\ resp' = Reply("createInvoice", "api", 200, newId, serviceVisitId, 0)
    /\ UNCHANGED <<customers, products, visits, warranties, vehicles, pdfFiles, now, reqs>>

\* POST /api/invoices/from-service-visit
CreateInvoiceFromServiceVisit(newId, serviceVisitId, items, couponCode) ==
    LET serviceVisit == IF serviceVisitId \in DOMAIN visits
                          THEN visits[serviceVisitId] ELSE NoDoc
    IN
    /\ ~invoices[newId].exists
    /\ IF ~serviceVisit.exists
         THEN /\ resp' = Reply("createInvoice", "api", 404, newId, serviceVisitId, 0)
              /\ UNCHANGED <<invoices, coupons>>
       ELSE IF Populated(serviceVisit) = None
         THEN /\ resp' = Reply("createInvoice", "api", 400, newId, serviceVisitId, 0)
              /\ UNCHANGED <<invoices, coupons>>
       ELSE IF serviceVisit.status # "completed"
         THEN /\ resp' = Reply("createInvoice", "api", 400, newId, serviceVisitId, 0)
              /\ UNCHANGED <<invoices, coupons>>
       ELSE
         LET customer == serviceVisit.customerId
             outcome == CouponOutcome(couponCode, customer, SumTotals(items))
         IN
         /\ invoices' = [invoices EXCEPT ![newId] =
               NewInvoice(serviceVisitId, customer, VehicleDetails(customer),
                          items, couponCode, outcome)]
         /\ coupons' = IF outcome.couponId # None
                         THEN Redeemed(outcome.couponId, newId, customer,
                                       outcome.discountAmount)
                         ELSE coupons
         /\ resp' = Reply("createInvoice", "api", 200, newId, serviceVisitId, 0)
    /\ UNCHANGED <<customers, products, visits, warranties, vehicles, pdfFiles, now, reqs>>

\* the PDF artifact generateInvoicePDF writes for an invoice
PdfPathOf(id) == <<"invoices", id>>

\* line items the approval creates a Warranty for: flagged, of type product,
\* and Product.findById finds a product that has a warranty text
WarrantyItems(items) ==
    {i \in 1..Len(items) :
        /\ items[i].hasWarranty /\ items[i].type = "product"
        /\ items[i].productId \in ProductIds
        /\ ProductWarranty[items[i].productId] # None}

RECURSIVE WarrantyDocs(_, _, _, _)
\* the Warranty.create calls of the items in `made`, by item index
WarrantyDocs(invoice, id, made, i) ==
    IF i > Len(invoice.items) THEN <<>>
    ELSE (IF i \in made
            THEN <<[invoiceId |-> id,
                    customerId |-> invoice.customerId,
                    productId |-> invoice.items[i].productId,
                    durationMonths |->
                        DurationMonths(ProductWarranty[invoice.items[i].productId]),
                    startDate |-> now,
                    status |-> "active"]>>
            ELSE <<>>) \o WarrantyDocs(invoice, id, made, i + 1)

\* an approval that stores the status and the approval record but no token
ApprovedWithoutToken(invoice, userId, token) ==
    [invoice EXCEPT
       !.status = "approved",
       !.approvalStatus = [NoApproval EXCEPT !.approvedBy = userId,
                                             !.approvedAt = now]]

\* lines 4573-4594: the document the first save of the approve route stores
Approved(invoice, userId, token) ==
    [invoice EXCEPT
       !.status = "approved",
       !.approvalStatus = [NoApproval EXCEPT !.approvedBy = userId,
                                             !.approvedAt = now],
       !.pdfAccessToken = token,
       !.pdfTokenExpiry = now + TokenExpiryDays]

\* approval effects with the PDF rendered before the save and outside any
\* try/catch: a throwing renderer leaves the invoice as it was
ApproveEffectsPdfFatal(id, invoice, userId, token, pdfThrows, made) ==
    /\ made \subseteq WarrantyItems(invoice.items)
    /\ invoices' = IF pdfThrows THEN invoices
                   ELSE [invoices EXCEPT ![id] =
                          [Approved(invoice, userId, token) EXCEPT
                             !.pdfPath = PdfPathOf(id)]]
    /\ pdfFiles' = IF pdfThrows THEN pdfFiles ELSE pdfFiles \cup {PdfPathOf(id)}
    /\ warranties' = IF pdfThrows THEN warranties
                     ELSE warranties \o WarrantyDocs(invoice, id, made, 1)

\* lines 4573-4711 of the approve route: the approved status, the approval
\* record and the token are saved first; the PDF, warranty, notification and
\* logging steps follow, each inside its own try/catch
ApproveEffects(id, invoice, userId, token, pdfThrows, made) ==
    /\ made \subseteq WarrantyItems(invoice.items)
    /\ invoices' = [invoices EXCEPT ![id] =
          [Approved(invoice, userId, token) EXCEPT
             !.pdfPath = IF pdfThrows THEN invoice.pdfPath ELSE PdfPathOf(id)]]
    /\ pdfFiles' = IF pdfThrows THEN pdfFiles ELSE pdfFiles \cup {PdfPathOf(id)}
    /\ warranties' = warranties \o WarrantyDocs(invoice, id, made, 1)

\* an approve route that forgets the pending_approval check
ApproveInvoiceAnyStatus(id, userId, token, pdfThrows, made, notifyThrows, logThrows) ==
    LET invoice == Lookup(id)
    IN
    /\ IF ~invoice.exists
         THEN /\ resp' = Reply("approve", "api", 404, id, None, 0)
              /\ UNCHANGED <<invoices, warranties, pdfFiles>>
       ELSE
         /\ ApproveEffects(id, invoice, userId, token, pdfThrows, made)
         /\ resp' = Reply("approve", "api", 200, id, "approved", 0)
    /\ UNCHANGED <<customers, products, visits, coupons, vehicles, now, reqs>>

\* POST /api/invoices/:id/approve.  pdfThrows, notifyThrows and logThrows say
\* which later sub-step throws; made is the set of warranty items whose
\* Warranty.create succeeds (all of them when the warranty step does not throw)
ApproveInvoice(id, userId, token, pdfThrows, made, notifyThrows, logThrows) ==
    LET invoice == Lookup(id)
    IN
    /\ IF ~invoice.exists
         THEN /\ resp' = Reply("approve", "api", 404, id, None, 0)
              /\ UNCHANGED <<invoices, warranties, pdfFiles>>
       ELSE IF invoice.status # "pending_approval"
         THEN /\ resp' = Reply("approve", "api", 400, id, invoice.status, 0)
              /\ UNCHANGED <<invoices, warranties, pdfFiles>>
       ELSE
         /\ ApproveEffects(id, invoice, userId, token, pdfThrows, made)
         /\ resp' = Reply("approve", "api", 200, id, "approved", 0)
    /\ UNCHANGED <<customers, products, visits, coupons, vehicles, now, reqs>>

\* a reject route that forgets the pending_approval check
RejectInvoiceAnyStatus(id, userId, reason) ==
    LET invoice == Lookup(id)
    IN
    /\ IF ~invoice.exists
         THEN /\ resp' = Reply("reject", "api", 404, id, None, 0)
              /\ UNCHANGED invoices
       ELSE
         /\ invoices' = [invoices EXCEPT ![id] =
               [invoice EXCEPT
                  !.status = "rejected",
                  !.approvalStatus = [NoApproval EXCEPT !.rejectedBy = userId,
                                                        !.rejectedAt = now,
                                                        !.rejectionReason = reason]]]
         /\ resp' = Reply("reject", "api", 200, id, "rejected", 0)
    /\ UNCHANGED <<customers, products, visits, warranties, coupons, vehicles, pdfFiles, now, reqs>>

\* POST /api/invoices/:id/reject
RejectInvoice(id, userId, reason) ==
    LET invoice == Lookup(id)
    IN
    /\ IF ~invoice.exists
         THEN /\ resp' = Reply("reject", "api", 404, id, None, 0)
              /\ UNCHANGED invoices
       ELSE IF invoice.status # "pending_approval"
         THEN /\ resp' = Reply("reject", "api", 400, id, invoice.status, 0)
              /\ UNCHANGED invoices
       ELSE
         /\ invoices' = [invoices EXCEPT ![id] =
               [invoice EXCEPT
                  !.status = "rejected",
                  !.approvalStatus = [NoApproval EXCEPT !.rejectedBy = userId,
                                                        !.rejectedAt = now,
                                                        !.rejectionReason = reason]]]
         /\ resp' = Reply("reject", "api", 200, id, "rejected", 0)
    /\ UNCHANGED <<customers, products, visits, warranties, coupons, vehicles, pdfFiles, now, reqs>>

PaymentStatuses == {"paid", "unpaid", "partial"}
PaymentMethods == {"UPI", "Cash", "Card", "Net Banking", "Cheque"}

\* payment-status assignments that leave the payment method in place when
\* the invoice is marked unpaid
WithPaymentStatusKeepsMethod(invoice, paymentStatus, paymentMethod) ==
    IF paymentStatus = "paid"
      THEN [invoice EXCEPT
              !.paymentStatus = paymentStatus,
              !.paidAmount = invoice.totalAmount,
              !.dueAmount = 0,
              !.paymentMethod = IF paymentMethod # None THEN paymentMethod ELSE @]
    ELSE IF paymentStatus = "unpaid"
      THEN [invoice EXCEPT
              !.paymentStatus = paymentStatus,
              !.paidAmount = 0,
              !.dueAmount = invoice.totalAmount]
    ELSE [invoice EXCEPT !.paymentStatus = paymentStatus]

\* lines 4795-4811: the in-memory document after the payment-status route
\* has assigned the new status and the amounts that go with it
WithPaymentStatus(invoice, paymentStatus, paymentMethod) ==
    IF paymentStatus = "paid"
      THEN [invoice EXCEPT
              !.paymentStatus = paymentStatus,
              !.paidAmount = invoice.totalAmount,
              !.dueAmount = 0,
              !.paymentMethod = IF paymentMethod # None THEN paymentMethod ELSE @]
    ELSE IF paymentStatus = "unpaid"
      THEN [invoice EXCEPT
              !.paymentStatus = paymentStatus,
              !.paidAmount = 0,
              !.dueAmount = invoice.totalAmount,
              !.paymentMethod = None]
    ELSE [invoice EXCEPT !.paymentStatus = paymentStatus]

\* a payment-status route that forgets the `status !== 'approved'` check
SetPaymentStatusAnyStatus(id, paymentStatus, paymentMethod) ==
    LET invoice == Lookup(id)
    IN
    /\ IF paymentStatus = None \/ paymentStatus \notin PaymentStatuses
         THEN /\ resp' = ReplyWith("setPaymentStatus", "api", 400, id, paymentStatus, 0, paymentMethod)
              /\ UNCHANGED invoices
       ELSE IF paymentStatus = "paid" /\ paymentMethod # None
                /\ paymentMethod \notin PaymentMethods
         THEN /\ resp' = ReplyWith("setPaymentStatus", "api", 400, id, paymentStatus, 0, paymentMethod)
              /\ UNCHANGED invoices
       ELSE IF ~invoice.exists
         THEN /\ resp' = ReplyWith("setPaymentStatus", "api", 404, id, paymentStatus, 0, paymentMethod)
              /\ UNCHANGED invoices
       ELSE
         /\ invoices' = [invoices EXCEPT ![id] =
               WithPaymentStatus(invoice, paymentStatus, paymentMethod)]
         /\ resp' = ReplyWith("setPaymentStatus", "api", 200, id, paymentStatus, 0, paymentMethod)
    /\ UNCHANGED <<customers, products, visits, warranties, coupons, vehicles, pdfFiles, now, reqs>>

\* PATCH /api/invoices/:id/payment-status
SetPaymentStatus(id, paymentStatus, paymentMethod) ==
    LET invoice == Lookup(id)
    IN
    /\ IF paymentStatus = None \/ paymentStatus \notin PaymentStatuses
         THEN /\ resp' = ReplyWith("setPaymentStatus", "api", 400, id, paymentStatus, 0, paymentMethod)
              /\ UNCHANGED invoices
       ELSE IF paymentStatus = "paid" /\ paymentMethod # None
                /\ paymentMethod \notin PaymentMethods
         THEN /\ resp' = ReplyWith("setPaymentStatus", "api", 400, id, paymentStatus, 0, paymentMethod)
              /\ UNCHANGED invoices
       ELSE IF ~invoice.exists
         THEN /\ resp' = ReplyWith("setPaymentStatus", "api", 404, id, paymentStatus, 0, paymentMethod)
              /\ UNCHANGED invoices
       ELSE IF invoice.status # "approved"
         THEN /\ resp' = ReplyWith("setPaymentStatus", "api", 400, id, paymentStatus, 0, paymentMethod)
              /\ UNCHANGED invoices
       ELSE
         /\ invoices' = [invoices EXCEPT ![id] =
               WithPaymentStatus(invoice, paymentStatus, paymentMethod)]
         /\ resp' = ReplyWith("setPaymentStatus", "api", 200, id, paymentStatus, 0, paymentMethod)
    /\ UNCHANGED <<customers, products, visits, warranties, coupons, vehicles, pdfFiles, now, reqs>>

\* a payment that forgets `invoice.dueAmount -= amount`
WithPaymentDueKept(invoice, amount) ==
    LET paid == invoice.paidAmount + amount
        due == invoice.dueAmount
    IN  [invoice EXCEPT
           !.payments = Append(@, amount),
           !.paidAmount = paid,
           !.paymentStatus = IF due = 0 THEN "paid"
                             ELSE IF paid > 0 THEN "partial" ELSE @]

\* the in-memory document after lines 5042-5050 of the payment route
WithPayment(invoice, amount) ==
    LET paid == invoice.paidAmount + amount
        due == invoice.dueAmount - amount
    IN  [invoice EXCEPT
           !.payments = Append(@, amount),
           !.paidAmount = paid,
           !.dueAmount = due,
           !.paymentStatus = IF due = 0 THEN "paid"
                             ELSE IF paid > 0 THEN "partial" ELSE @]

\* a payment route that forgets the `amount > invoice.dueAmount` check
RecordPaymentNoDueCheck(id, amount) ==
    LET invoice == Lookup(id)
    IN
    /\ IF ~invoice.exists
         THEN /\ resp' = Reply("recordPayment", "api", 404, id, None, amount)
              /\ UNCHANGED invoices
       ELSE IF invoice.status # "approved"
         THEN /\ resp' = Reply("recordPayment", "api", 400, id, None, amount)
              /\ UNCHANGED invoices
       ELSE
         /\ Len(invoice.payments) < MaxPayments
         /\ invoices' = [invoices EXCEPT ![id] = WithPayment(invoice, amount)]
         /\ resp' = Reply("recordPayment", "api", 200, id, None, amount)
    /\ UNCHANGED <<customers, products, visits, warranties, coupons, vehicles, pdfFiles, now, reqs>>

\* POST /api/invoices/:id/payments
RecordPayment(id, amount) ==
    LET invoice == Lookup(id)
    IN
    /\ IF ~invoice.exists
         THEN /\ resp' = Reply("recordPayment", "api", 404, id, None, amount)
              /\ UNCHANGED invoices
       ELSE IF invoice.status # "approved"
         THEN /\ resp' = Reply("recordPayment", "api", 400, id, None, amount)
              /\ UNCHANGED invoices
       ELSE IF amount > invoice.dueAmount
         THEN /\ resp' = Reply("recordPayment", "api", 400, id, None, amount)
              /\ UNCHANGED invoices
       ELSE
         /\ Len(invoice.payments) < MaxPayments
         /\ invoices' = [invoices EXCEPT ![id] = WithPayment(invoice, amount)]
         /\ resp' = Reply("recordPayment", "api", 200, id, None, amount)
    /\ UNCHANGED <<customers, products, visits, warranties, coupons, vehicles, pdfFiles, now, reqs>>

\* lines 4843-4875 and 4950-4982: render the PDF when none is stored or the
\* stored file is gone, then stream it
ServePdf(op, id, invoice, renderThrows, arg) ==
    IF invoice.pdfPath = None \/ invoice.pdfPath \notin pdfFiles
      THEN IF renderThrows
             THEN /\ resp' = ReplyWith(op, "api", 500, id, None, 0, arg)
                  /\ UNCHANGED <<invoices, pdfFiles>>
             ELSE /\ invoices' = [invoices EXCEPT ![id].pdfPath = PdfPathOf(id)]
                  /\ pdfFiles' = pdfFiles \cup {PdfPathOf(id)}
                  /\ resp' = ReplyWith(op, "api", 200, id, "rendered", 0, arg)
      ELSE /\ resp' = ReplyWith(op, "api", 200, id, "stored", 0, arg)
           /\ UNCHANGED <<invoices, pdfFiles>>

\* GET /api/invoices/:id/pdf (authenticated)
GetInvoicePdf(id, renderThrows) ==
    LET invoice == Lookup(id)
    IN
    /\ IF ~invoice.exists
         THEN /\ resp' = Reply("getPdf", "api", 404, id, None, 0)
              /\ UNCHANGED <<invoices, pdfFiles>>
         ELSE ServePdf("getPdf", id, invoice, renderThrows, None)
    /\ UNCHANGED <<customers, products, visits, warranties, coupons, vehicles, now, reqs>>

\* a public PDF route that compares the token and forgets the expiry
GetPublicInvoicePdfNoExpiry(id, token, renderThrows) ==
    LET invoice == Lookup(id)
    IN
    /\ IF ~invoice.exists
         THEN /\ resp' = ReplyWith("getPublicPdf", "api", 404, id, None, 0, token)
              /\ UNCHANGED <<invoices, pdfFiles>>
       ELSE IF invoice.status # "approved"
         THEN /\ resp' = ReplyWith("getPublicPdf", "api", 400, id, None, 0, token)
              /\ UNCHANGED <<invoices, pdfFiles>>
       ELSE IF invoice.pdfAccessToken = None \/ invoice.pdfAccessToken # token
         THEN /\ resp' = ReplyWith("getPublicPdf", "api", 403, id, "invalid", 0, token)
              /\ UNCHANGED <<invoices, pdfFiles>>
       ELSE ServePdf("getPublicPdf", id, invoice, renderThrows, token)
    /\ UNCHANGED <<customers, products, visits, warranties, coupons, vehicles, now, reqs>>

\* GET /api/public/invoices/:id/pdf?token=...
GetPublicInvoicePdf(id, token, renderThrows) ==
    LET invoice == Lookup(id)
    IN
    /\ IF ~invoice.exists
         THEN /\ resp' = ReplyWith("getPublicPdf", "api", 404, id, None, 0, token)
              /\ UNCHANGED <<invoices, pdfFiles>>
       ELSE IF invoice.status # "approved"
         THEN /\ resp' = ReplyWith("getPublicPdf", "api", 400, id, None, 0, token)
              /\ UNCHANGED <<invoices, pdfFiles>>
       ELSE IF invoice.pdfAccessToken = None \/ invoice.pdfAccessToken # token
         THEN /\ resp' = ReplyWith("getPublicPdf", "api", 403, id, "invalid", 0, token)
              /\ UNCHANGED <<invoices, pdfFiles>>
       ELSE IF invoice.pdfTokenExpiry # -1 /\ now > invoice.pdfTokenExpiry
         THEN /\ resp' = ReplyWith("getPublicPdf", "api", 403, id, "expired", 0, token)
              /\ UNCHANGED <<invoices, pdfFiles>>
       ELSE ServePdf("getPublicPdf", id, invoice, renderThrows, token)
    /\ UNCHANGED <<customers, products, visits, warranties, coupons, vehicles, now, reqs>>

\* uploaded warranty-card payloads: two well-formed data URLs and one that is
\* not a data URL
Files == {"f1", "f2"}
BadFile == "notdata"

\* a vehicle card list that always appends
UpsertCardAppends(cards, partId, fileData) ==
    Append(cards, [partId |-> partId, fileData |-> fileData])

\* lines 5231-5247: replace the card of partId or append one
UpsertCard(cards, partId, fileData) ==
    IF \E k \in 1..Len(cards) : cards[k].partId = partId
      THEN LET existingIndex == CHOOSE k \in 1..Len(cards) :
                                   /\ cards[k].partId = partId
                                   /\ \A j \in 1..(k - 1) : cards[j].partId # partId
           IN  [cards EXCEPT ![existingIndex] = [partId |-> partId, fileData |-> fileData]]
      ELSE Append(cards, [partId |-> partId, fileData |-> fileData])

InSeq(x, s) == \E k \in 1..Len(s) : s[k] = x

\* a sync that skips the selectedParts test and the empty-snapshot test
SyncedVehiclesAnyPart(invoice, item, fileData) ==
    IF item.productId = None \/ invoice.customerId = None
      THEN vehicles
      ELSE [v \in DOMAIN vehicles |->
              IF vehicles[v].exists /\ vehicles[v].customerId = invoice.customerId
                THEN [vehicles[v] EXCEPT
                        !.warrantyCards = UpsertCard(@, item.productId, fileData)]
                ELSE vehicles[v]]

\* lines 5200-5257: mirror the card onto the customer's matching vehicles
SyncedVehicles(invoice, item, fileData) ==
    LET invoiceVehicleIds == {vd.vehicleId : vd \in {d \in invoice.vehicleDetails :
                                                        d.vehicleId # None}}
    IN  IF item.productId = None \/ invoice.customerId = None \/ invoiceVehicleIds = {}
          THEN vehicles
          ELSE [v \in DOMAIN vehicles |->
                  IF /\ vehicles[v].exists
                     /\ vehicles[v].customerId = invoice.customerId
                     /\ (vehicles[v].vehicleId \in invoiceVehicleIds \/ v \in invoiceVehicleIds)
                     /\ InSeq(item.productId, vehicles[v].selectedParts)
                    THEN [vehicles[v] EXCEPT
                            !.warrantyCards = UpsertCard(@, item.productId, fileData)]
                    ELSE vehicles[v]]

\* POST /api/invoices/:id/warranty-cards; itemIndex counts from 0
UploadWarrantyCard(id, itemIndex, warrantyCardData) ==
    LET invoice == Lookup(id)
    IN
    /\ IF warrantyCardData = None \/ warrantyCardData \notin Files
         THEN /\ resp' = ReplyWith("uploadCard", "api", 400, id, None, itemIndex, warrantyCardData)
              /\ UNCHANGED <<invoices, vehicles>>
       ELSE IF ~invoice.exists
         THEN /\ resp' = ReplyWith("uploadCard", "api", 404, id, None, itemIndex, warrantyCardData)
              /\ UNCHANGED <<invoices, vehicles>>
       ELSE IF itemIndex < 0 \/ itemIndex >= Len(invoice.items)
         THEN /\ resp' = ReplyWith("uploadCard", "api", 400, id, None, itemIndex, warrantyCardData)
              /\ UNCHANGED <<invoices, vehicles>>
       ELSE
         LET item == invoice.items[itemIndex + 1]
         IN  /\ Len(item.warrantyCards) < MaxCards
             /\ invoices' = [invoices EXCEPT
                   ![id].items[itemIndex + 1].warrantyCards = Append(@, warrantyCardData)]
             /\ vehicles' = SyncedVehicles(invoice, item, warrantyCardData)
             /\ resp' = ReplyWith("uploadCard", "api", 200, id, None, itemIndex, warrantyCardData)
    /\ UNCHANGED <<customers, products, visits, warranties, coupons, pdfFiles, now, reqs>>

\* time passes
Tick ==
    /\ now + TickDays <= MaxNow
    /\ now' = now + TickDays
    /\ resp' = Reply("tick", None, 0, None, None, 0)
    /\ UNCHANGED <<customers, products, visits, invoices, warranties, coupons, vehicles, pdfFiles, reqs>>

Amounts == (-MaxAmount)..MaxAmount
ItemIndexes == UNION {DOMAIN items : items \in ItemLists}

ApiCreateInvoice ==
    \E newId \in InvoiceIds, v \in VisitIds \cup {"V9"}, items \in ItemLists,
       couponCode \in {None, "save1", "nope"} :
        CreateInvoiceFromServiceVisit(newId, v, items, couponCode)
ApiApprove ==
    \E id \in InvoiceIds, u \in Users, token \in Tokens,
       pdfThrows \in BOOLEAN, made \in SUBSET ItemIndexes,
       notifyThrows \in BOOLEAN, logThrows \in BOOLEAN :
        ApproveInvoice(id, u, token, pdfThrows, made, notifyThrows, logThrows)
ApiReject == \E id \in InvoiceIds, u \in Users : RejectInvoice(id, u, "reason")
ApiGetPdf == \E id \in InvoiceIds, renderThrows \in BOOLEAN : GetInvoicePdf(id, renderThrows)
ApiGetPublicPdf ==
    \E id \in InvoiceIds, token \in Tokens \cup {"forged", None}, renderThrows \in BOOLEAN :
        GetPublicInvoicePdf(id, token, renderThrows)

\* the payment and upload requests of the lifecycle specification carry one
\* representative input each; parts 2b and later draw them in full
TogglePaid ==
    \E id \in InvoiceIds, ps \in {"paid", "unpaid"} : SetPaymentStatus(id, ps, "Cash")
PayOne == \E id \in InvoiceIds : RecordPayment(id, 1)
UploadOne ==
    \E id \in InvoiceIds, itemIndex \in {-1, 0} \cup ItemIndexes, data \in {"f1", BadFile} :
        UploadWarrantyCard(id, itemIndex, data)

\* a visit that went through the service page up to `status`
ServedVisit(status) ==
    [exists |-> TRUE, customerId |-> "C1", status |-> status,
     handlerIds |-> {"E1"}, beforeImages |-> <<"b64">>, afterImages |-> <<"b64">>,
     stageTimestamps |-> {"inquired", "working", status}]

InitInvoice ==
    /\ \E status \in {"working", "completed"} : visits = [v \in VisitIds |-> ServedVisit(status)]
    /\ invoices = [i \in InvoiceIds |-> NoDoc]
    /\ warranties = <<>>
    /\ coupons = [c \in CouponCodes |->
                    [isActive |-> TRUE, discountType |-> "fixed", discountValue |-> 1,
                     validFrom |-> 0, validUntil |-> 4,
                     usageLimit |-> 2, perCustomerLimit |-> 1, minPurchaseAmount |-> 3,
                     usedCount |-> 0, usageHistory |-> <<>>]]
    /\ vehicles = [v \in {"VH1"} |->
                    [exists |-> TRUE, customerId |-> "C1", vehicleId |-> "VEH001",
                     selectedParts |-> <<"P1">>, warrantyCards |-> <<>>]]
    /\ pdfFiles = {}
    /\ now = 0
    /\ reqs = <<>>
    /\ customers = RegisteredCustomers
    /\ products = StockedProducts
    /\ resp = NoResp

NextInvoice ==
    \/ ApiCreateInvoice
    \/ ApiApprove
    \/ ApiReject
    \/ TogglePaid
    \/ PayOne
    \/ ApiGetPdf
    \/ ApiGetPublicPdf
    \/ UploadOne
    \/ Tick

SpecInvoice == InitInvoice /\ [][NextInvoice]_vars

\* ------------------------------------------------------------------------
\* Part 2b: payments on an invoice, with the payment requests drawn in full
\* ------------------------------------------------------------------------
ApiSetPaymentStatus ==
    \E id \in InvoiceIds, ps \in PaymentStatuses \cup {None, "refunded"},
       pm \in {None, "Cash", "UPI", "Barter"} :
        SetPaymentStatus(id, ps, pm)
ApiRecordPayment == \E id \in InvoiceIds, amount \in Amounts : RecordPayment(id, amount)

\* an approval in which no sub-step throws
ApprovePlain ==
    \E id \in InvoiceIds :
        /\ invoices[id].exists
        /\ ApproveInvoice(id, "U1", "t1", FALSE, WarrantyItems(invoices[id].items),
                          FALSE, FALSE)

NextPayments ==
    \/ ApiCreateInvoice
    \/ ApprovePlain
    \/ ApiReject
    \/ ApiSetPaymentStatus
    \/ ApiRecordPayment

SpecPayments == InitInvoice /\ [][NextPayments]_vars

\* ------------------------------------------------------------------------
\* Part 2c: payment recording alone (no direct payment-status toggle)
\* ------------------------------------------------------------------------
NextLedger ==
    \/ ApiCreateInvoice
    \/ ApprovePlain
    \/ ApiReject
    \/ ApiRecordPayment

SpecLedger == InitInvoice /\ [][NextLedger]_vars

\* ========================================================================
\* Properties of the invoice lifecycle
\* ========================================================================
StoreUnchanged ==
    UNCHANGED <<visits, invoices, warranties, coupons, vehicles, customers, products, pdfFiles>>

\* the step is the answer `op` (one of ops) to a request on invoice id
Answers(ops, id) == resp'.op \in ops /\ resp'.id = id

\* C4: the invoice status is final once decided: an approved invoice stays
\* approved and a rejected invoice stays rejected in every step of approve,
\* reject, payment-status, payment, PDF and warranty-card requests.
C4_StatusFinal ==
    [][\A id \in InvoiceIds :
          (invoices[id].exists /\ invoices[id].status \in {"approved", "rejected"})
            => (invoices'[id].exists /\ invoices'[id].status = invoices[id].status)]_vars

\* a reject was refused on an approved invoice and an approve on a rejected one
C4_Witness ==
    /\ invoices["I1"].exists
    /\ invoices["I1"].status = "approved"
    /\ Len(invoices["I1"].payments) >= 1
    /\ invoices["I1"].pdfPath # None
    /\ resp.op = "reject" /\ resp.code = 400

\* C5: approve and reject on an invoice whose status is not pending_approval
\* fail with 400 and leave the invoice, the warranties, the PDF artifacts and
\* every other collection as they were.
C5_NonPendingRefused ==
    [][\A id \in InvoiceIds :
          (/\ Answers({"approve", "reject"}, id)
           /\ invoices[id].exists
           /\ invoices[id].status # "pending_approval")
            => (resp'.code = 400 /\ resp'.target = invoices[id].status /\ StoreUnchanged)]_vars

\* an approve was refused on an already approved invoice
C5_Witness ==
    /\ resp.op = "approve" /\ resp.code = 400 /\ resp.target = "approved"
    /\ invoices["I1"].exists /\ invoices["I1"].status = "approved"

\* C6: approve on a pending_approval invoice answers 200 and stores status
\* approved whichever of the PDF, warranty, notification and logging
\* sub-steps throws.
C6_ApproveAlwaysCompletes ==
    [][\A id \in InvoiceIds :
          (/\ Answers({"approve"}, id)
           /\ invoices[id].exists
           /\ invoices[id].status = "pending_approval")
            => (/\ resp'.code = 200
                /\ invoices'[id].status = "approved"
                /\ invoices'[id].pdfAccessToken # None)]_vars

\* an approval whose PDF step and warranty step both failed went through
C6_Witness ==
    /\ resp.op = "approve" /\ resp.code = 200
    /\ invoices["I1"].exists /\ invoices["I1"].status = "approved"
    /\ invoices["I1"].pdfPath = None
    /\ WarrantyItems(invoices["I1"].items) # {}
    /\ warranties = <<>>

\* C7: paidAmount + dueAmount = totalAmount holds of every stored invoice,
\* after every recordPayment and every setPaymentStatus call.
C7_PaidPlusDueIsTotal ==
    \A id \in InvoiceIds :
        invoices[id].exists =>
            invoices[id].paidAmount + invoices[id].dueAmount = invoices[id].totalAmount

\* a payment-status call was accepted on an invoice with recorded payments
C7_Witness ==
    /\ invoices["I1"].exists
    /\ Len(invoices["I1"].payments) = MaxPayments
    /\ invoices["I1"].paidAmount > 0 /\ invoices["I1"].dueAmount > 0
    /\ resp.op = "setPaymentStatus" /\ resp.code = 200 /\ resp.target = "partial"

\* C8: recordPayment on an invoice that is not approved, or with an amount
\* above the current dueAmount, is refused with 400 and leaves the ledger,
\* paidAmount, dueAmount and paymentStatus (the whole store) unchanged.
C8_BadPaymentRefused ==
    [][\A id \in InvoiceIds :
          (/\ Answers({"recordPayment"}, id)
           /\ invoices[id].exists
           /\ (invoices[id].status # "approved" \/ resp'.amount > invoices[id].dueAmount))
            => (resp'.code = 400 /\ StoreUnchanged)]_vars

\* a payment above the due amount was refused on a partly paid invoice
C8_Witness ==
    /\ resp.op = "recordPayment" /\ resp.code = 400
    /\ invoices["I1"].exists /\ invoices["I1"].status = "approved"
    /\ invoices["I1"].paymentStatus = "partial"
    /\ resp.amount > invoices["I1"].dueAmount

\* C9: an accepted recordPayment(amount) appends one ledger entry, adds amount
\* to paidAmount, takes it from dueAmount and sets paymentStatus to paid
\* exactly when dueAmount is then zero, else to partial when paidAmount > 0;
\* and when the recorded payments then sum to totalAmount the invoice is paid
\* with dueAmount 0, while the ledger before it, if its sum was positive, had
\* left paymentStatus partial.
C9_PaymentEffects ==
    [][\A id \in InvoiceIds :
          (Answers({"recordPayment"}, id) /\ resp'.code = 200)
            => LET before == invoices[id]
                   after == invoices'[id]
               IN  /\ after.payments = Append(before.payments, resp'.amount)
                   /\ after.paidAmount = before.paidAmount + resp'.amount
                   /\ after.dueAmount = before.dueAmount - resp'.amount
                   /\ (after.paymentStatus = "paid") <=> (after.dueAmount = 0)
                   /\ (after.dueAmount # 0 /\ after.paidAmount > 0)
                        => after.paymentStatus = "partial"
                   /\ SumSeq(after.payments) = after.totalAmount
                        => /\ after.paymentStatus = "paid"
                           /\ after.dueAmount = 0
                           /\ SumSeq(before.payments) > 0
                                => before.paymentStatus = "partial"]_vars

\* ========================================================================
\* Part 3: concurrent POST /api/invoices/:id/payments requests
\* ========================================================================
\* Each request runs lines 5020-5050 without yielding once findById has
\* resolved, and yields again at `await invoice.save()`.  save() writes the
\* paths the request modified on its own copy: the new ledger entry is
\* pushed onto the stored array, a changed paidAmount, dueAmount or
\* paymentStatus overwrites the stored value.
ReqIds == 1..MaxReqs
Idle == [pc |-> "idle"]

\* a connection that is not waiting for its save sends a request; findById
\* resolves; the checks and lines 5033-5050 run on the loaded copy
PayLoad(r, id, amount) ==
    LET invoice == Lookup(id)
    IN
    /\ reqs[r].pc # "save"
    /\ invoice.exists => Len(invoice.payments) < MaxPayments
    /\ IF ~invoice.exists
         THEN /\ resp' = Reply("recordPayment", "api", 404, id, None, amount)
              /\ reqs' = [reqs EXCEPT ![r] = [pc |-> "done"]]
       ELSE IF invoice.status # "approved"
         THEN /\ resp' = Reply("recordPayment", "api", 400, id, None, amount)
              /\ reqs' = [reqs EXCEPT ![r] = [pc |-> "done"]]
       ELSE IF amount > invoice.dueAmount
         THEN /\ resp' = Reply("recordPayment", "api", 400, id, None, amount)
              /\ reqs' = [reqs EXCEPT ![r] = [pc |-> "done"]]
       ELSE
         /\ reqs' = [reqs EXCEPT ![r] =
                       [pc |-> "save", id |-> id, amount |-> amount,
                        loaded |-> invoice, doc |-> WithPayment(invoice, amount)]]
         /\ resp' = Reply("recordPayment", "api", 0, id, "loaded", amount)
    /\ UNCHANGED <<customers, products, visits, invoices, warranties, coupons, vehicles, pdfFiles, now>>

\* the value save() leaves in a stored path: the request's value when the
\* request changed the path, the stored value otherwise
Saved(stored, loaded, mine) == IF mine # loaded THEN mine ELSE stored

\* invoice.save() completes and the route answers
PaySave(r) ==
    LET q == reqs[r]
        stored == invoices[q.id]
    IN
    /\ q.pc = "save"
    /\ invoices' = [invoices EXCEPT ![q.id] =
          [stored EXCEPT
             !.payments = Append(@, q.amount),
             !.paidAmount = Saved(@, q.loaded.paidAmount, q.doc.paidAmount),
             !.dueAmount = Saved(@, q.loaded.dueAmount, q.doc.dueAmount),
             !.paymentStatus = Saved(@, q.loaded.paymentStatus, q.doc.paymentStatus)]]
    /\ reqs' = [reqs EXCEPT ![r] = [pc |-> "done"]]
    /\ resp' = Reply("recordPayment", "api", 200, q.id, None, q.amount)
    /\ UNCHANGED <<customers, products, visits, warranties, coupons, vehicles, pdfFiles, now>>

\* an invoice created from a completed visit without coupon and approved
\* with every sub-step succeeding
ApprovedInvoice(id, items) ==
    [exists |-> TRUE,
     serviceVisitId |-> "V1",
     customerId |-> "C1",
     customerDetails |-> [fullName |-> RegisteredCustomers["C1"].fullName,
                          mobileNumber |-> RegisteredCustomers["C1"].mobileNumber],
     vehicleDetails |-> {[vehicleId |-> "VEH001", selectedParts |-> <<"P1">>]},
     items |-> items,
     subtotal |-> SumTotals(items),
     discountType |-> None,
     discountValue |-> 0,
     discountAmount |-> 0,
     couponCode |-> None,
     couponId |-> None,
     totalAmount |-> SumTotals(items),
     paidAmount |-> 0,
     dueAmount |-> SumTotals(items),
     status |-> "approved",
     paymentStatus |-> "unpaid",
     paymentMethod |-> None,
     payments |-> <<>>,
     approvalStatus |-> [NoApproval EXCEPT !.approvedBy = "U1", !.approvedAt = 0],
     pdfAccessToken |-> "t1",
     pdfTokenExpiry |-> TokenExpiryDays,
     pdfPath |-> PdfPathOf(id)]

InitRace ==
    /\ visits = [v \in VisitIds |-> ServedVisit("completed")]
    /\ \E items \in ItemLists : invoices = [i \in InvoiceIds |-> ApprovedInvoice(i, items)]
    /\ warranties = <<>>
    /\ coupons = <<>>
    /\ vehicles = <<>>
    /\ pdfFiles = {PdfPathOf(i) : i \in InvoiceIds}
    /\ now = 0
    /\ reqs = [r \in ReqIds |-> Idle]
    /\ customers = RegisteredCustomers
    /\ products = StockedProducts
    /\ resp = NoResp

RacePayLoad ==
    \E r \in ReqIds, id \in InvoiceIds, amount \in 1..MaxAmount : PayLoad(r, id, amount)
RacePaySave == \E r \in ReqIds : PaySave(r)

NextRace ==
    \/ RacePayLoad
    \/ RacePaySave

SpecRace == InitRace /\ [][NextRace]_vars

\* C10: under any interleaving of concurrent recordPayment requests on one
\* approved invoice the accepted amounts never sum to more than totalAmount,
\* and once no request is in flight paidAmount is the sum of the ledger and
\* dueAmount is totalAmount minus that sum.
C10_NoStaleDueAmount ==
    \A id \in InvoiceIds :
        /\ SumSeq(invoices[id].payments) <= invoices[id].totalAmount
        /\ (\A r \in ReqIds : reqs[r].pc # "save")
             => /\ invoices[id].paidAmount = SumSeq(invoices[id].payments)
                /\ invoices[id].dueAmount =
                       invoices[id].totalAmount - SumSeq(invoices[id].payments)

\* ========================================================================
\* Part 4: coupon redemption over several invoices
\* ========================================================================
\* ids the store hands to new invoices, in order
IdSeq == <<"I1", "I2", "I3", "I4">>
IdSet == {IdSeq[n] : n \in DOMAIN IdSeq}
FreeSlots == {n \in DOMAIN IdSeq : IdSeq[n] \in DOMAIN invoices /\ ~invoices[IdSeq[n]].exists}
NextId == IdSeq[CHOOSE n \in FreeSlots : \A m \in FreeSlots : n <= m]

\* visits the creation requests name: two completed visits of two customers,
\* one still being worked on, and one whose customer no longer resolves
CouponVisits ==
    [v \in {"V1", "V2", "V3", "V4"} |->
        CASE v = "V1" -> ServedVisit("completed")
          [] v = "V2" -> [ServedVisit("completed") EXCEPT !.customerId = "C2"]
          [] v = "V3" -> ServedVisit("working")
          [] OTHER -> [ServedVisit("completed") EXCEPT !.customerId = None]]

InitCoupon ==
    /\ visits = CouponVisits
    /\ invoices = [i \in IdSet |-> NoDoc]
    /\ warranties = <<>>
    /\ \E k \in 1..MaxCap, u \in {MaxCap, MaxCap + 1} :
          coupons = [c \in CouponCodes |->
                       [isActive |-> TRUE, discountType |-> "fixed", discountValue |-> 1,
                        validFrom |-> 0, validUntil |-> 4,
                        usageLimit |-> u, perCustomerLimit |-> k, minPurchaseAmount |-> 3,
                        usedCount |-> 0, usageHistory |-> <<>>]]
    /\ vehicles = [v \in {"VH1"} |->
                    [exists |-> TRUE, customerId |-> "C1", vehicleId |-> "VEH001",
                     selectedParts |-> <<"P1">>, warrantyCards |-> <<>>]]
    /\ pdfFiles = {}
    /\ now = 0
    /\ reqs = <<>>
    /\ customers = RegisteredCustomers
    /\ products = StockedProducts
    /\ resp = NoResp

CouponCreate ==
    /\ FreeSlots # {}
    /\ \E v \in DOMAIN visits \cup {"V9"}, items \in ItemLists,
          couponCode \in {None, "save1", "nope"} :
           CreateInvoiceFromServiceVisit(NextId, v, items, couponCode)

NextCoupon ==
    \/ CouponCreate
    \/ Tick

SpecCoupon == InitCoupon /\ [][NextCoupon]_vars

\* the step is an accepted creation request
Created == resp'.op = "createInvoice" /\ resp'.code = 200

\* C11: a creation by a customer with a coupon that is otherwise redeemable
\* gets the discount and adds one usage-history entry while the customer has
\* fewer than perCustomerLimit entries; once the customer has perCustomerLimit
\* entries the creation gets no discount and adds no entry.
C11_PerCustomerCap ==
    [][Created =>
         LET inv == invoices'[resp'.id]
             code == inv.couponCode
         IN  code \in DOMAIN coupons =>
               LET c == coupons[code]
                   uses == CustomerUses(c, inv.customerId)
                   redeemable == /\ c.usedCount < c.usageLimit
                                 /\ c.validFrom <= now /\ now <= c.validUntil
                                 /\ inv.subtotal >= c.minPurchaseAmount
               IN  /\ (redeemable /\ uses < c.perCustomerLimit)
                        => /\ inv.discountAmount > 0
                           /\ inv.discountType = c.discountType
                           /\ inv.couponId = code
                           /\ CustomerUses(coupons'[code], inv.customerId) = uses + 1
                           /\ Len(coupons'[code].usageHistory) = Len(c.usageHistory) + 1
                   /\ uses >= c.perCustomerLimit
                        => /\ inv.discountAmount = 0
                           /\ inv.couponId = None
                           /\ coupons' = coupons
                   /\ CustomerUses(coupons'[code], inv.customerId) <= c.perCustomerLimit]_vars

\* the customer used the coupon up to a cap of at least two and the next
\* creation with the same coupon, otherwise redeemable, got no discount
C11_Witness ==
    /\ resp.op = "createInvoice" /\ resp.code = 200 /\ resp.target = "V1"
    /\ coupons["SAVE1"].perCustomerLimit >= 2
    /\ CustomerUses(coupons["SAVE1"], "C1") = coupons["SAVE1"].perCustomerLimit
    /\ coupons["SAVE1"].usedCount < coupons["SAVE1"].usageLimit
    /\ now <= coupons["SAVE1"].validUntil
    /\ invoices[resp.id].couponCode = "SAVE1"
    /\ invoices[resp.id].subtotal >= coupons["SAVE1"].minPurchaseAmount
    /\ invoices[resp.id].discountAmount = 0
    /\ \A n \in 1..Len(coupons["SAVE1"].usageHistory) :
          coupons["SAVE1"].usageHistory[n].invoiceId # resp.id

\* C17: a creation succeeds only for a visit that exists, has a customer and
\* has status completed; a failed creation stores no invoice and no coupon
\* usage (the whole store is unchanged).
C17_CreationNeedsCompletedVisit ==
    [][resp'.op = "createInvoice" =>
         IF resp'.code = 200
           THEN /\ resp'.target \in DOMAIN visits
                /\ visits[resp'.target].exists
                /\ visits[resp'.target].customerId # None
                /\ visits[resp'.target].status = "completed"
           ELSE /\ StoreUnchanged
                /\ ~(/\ resp'.target \in DOMAIN visits
                     /\ visits[resp'.target].exists
                     /\ visits[resp'.target].customerId # None
                     /\ visits[resp'.target].status = "completed")]_vars

\* with one redeemed invoice stored, a creation for the visit that is still
\* being worked on was refused
C17_Witness ==
    /\ resp.op = "createInvoice" /\ resp.code = 400 /\ resp.target = "V3"
    /\ invoices["I1"].exists /\ ~invoices["I2"].exists
    /\ coupons["SAVE1"].usedCount = 1

\* C18: every invoice a creation stores has subtotal = sum of the supplied
\* line totals, totalAmount = subtotal - discountAmount, dueAmount =
\* totalAmount, paidAmount 0 and status pending_approval.
C18_CreatedAmounts ==
    [][Created =>
         LET inv == invoices'[resp'.id]
         IN  /\ ~invoices[resp'.id].exists /\ inv.exists
             /\ inv.items \in ItemLists
             /\ inv.subtotal = SumTotals(inv.items)
             /\ inv.totalAmount = inv.subtotal - inv.discountAmount
             /\ inv.dueAmount = inv.totalAmount
             /\ inv.paidAmount = 0
             /\ inv.status = "pending_approval"]_vars

\* an invoice was created with a coupon discount taken off its subtotal
C18_Witness ==
    /\ resp.op = "createInvoice" /\ resp.code = 200
    /\ invoices[resp.id].discountAmount > 0
    /\ invoices[resp.id].totalAmount < invoices[resp.id].subtotal

\* C19: an invoice whose coupon code did not exist or did not validate (it has
\* no coupon reference) carries discountAmount 0 and no coupon code, and the
\* creation recorded no coupon usage for it.
C19_InvalidCouponIgnored ==
    \A id \in DOMAIN invoices :
        (invoices[id].exists /\ invoices[id].couponId = None)
          => /\ invoices[id].discountAmount = 0
             /\ invoices[id].couponCode = None
             /\ \A c \in DOMAIN coupons :
                  \A n \in 1..Len(coupons[c].usageHistory) :
                     coupons[c].usageHistory[n].invoiceId # id

\* ========================================================================
\* Part 5: concurrent POST /api/invoices/from-service-visit requests
\* ========================================================================
\* A request yields at every await.  The coupon is read and validated at
\* `await Coupon.findOne` (line 4459), the invoice is written at
\* `await invoice.save()` (line 4498) and the coupon is written at
\* `await Coupon.findByIdAndUpdate` (line 4502).  A process crash or an
\* aborted request ends a request between any two of them.

\* lines 4386-4469: the visit checks pass and the coupon is read and judged
CreateValidate(r, serviceVisitId, items, couponCode) ==
    LET serviceVisit == IF serviceVisitId \in DOMAIN visits
                          THEN visits[serviceVisitId] ELSE NoDoc
    IN
    /\ reqs[r].pc \in {"idle", "done"}
    /\ FreeSlots # {}
    /\ IF ~serviceVisit.exists
         THEN /\ resp' = Reply("createInvoice", "api", 404, None, serviceVisitId, 0)
              /\ reqs' = [reqs EXCEPT ![r] = [pc |-> "done"]]
       ELSE IF Populated(serviceVisit) = None \/ serviceVisit.status # "completed"
         THEN /\ resp' = Reply("createInvoice", "api", 400, None, serviceVisitId, 0)
              /\ reqs' = [reqs EXCEPT ![r] = [pc |-> "done"]]
       ELSE
         LET customer == serviceVisit.customerId
         IN  /\ reqs' = [reqs EXCEPT ![r] =
                   [pc |-> "save", serviceVisitId |-> serviceVisitId,
                    customer |-> customer, items |-> items,
                    couponCode |-> couponCode,
                    vehicleDetails |-> VehicleDetails(customer),
                    outcome |-> CouponOutcome(couponCode, customer, SumTotals(items))]]
             /\ resp' = Reply("createInvoice", "api", 0, None, "validated", 0)
    /\ UNCHANGED <<customers, products, visits, invoices, warranties, coupons, vehicles, pdfFiles, now>>

\* a request that writes the coupon usage where it should save the invoice
CreateSaveCouponFirst(r) ==
    LET q == reqs[r]
        newId == NextId
    IN
    /\ q.pc = "save"
    /\ FreeSlots # {}
    /\ coupons' = IF q.outcome.couponId # None
                    THEN Redeemed(q.outcome.couponId, newId, q.customer,
                                  q.outcome.discountAmount)
                    ELSE coupons
    /\ reqs' = [reqs EXCEPT ![r] = [pc |-> "done"]]
    /\ resp' = Reply("createInvoice", "api", 0, newId, "saved", 0)
    /\ UNCHANGED <<customers, products, visits, invoices, warranties, vehicles, pdfFiles, now>>

\* lines 4476-4498: invoice.save() completes; without a coupon to redeem the
\* route answers
CreateSave(r) ==
    LET q == reqs[r]
        newId == NextId
    IN
    /\ q.pc = "save"
    /\ FreeSlots # {}
    /\ invoices' = [invoices EXCEPT ![newId] =
          NewInvoice(q.serviceVisitId, q.customer, q.vehicleDetails,
                     q.items, q.couponCode, q.outcome)]
    /\ IF q.outcome.couponId # None
         THEN /\ reqs' = [reqs EXCEPT ![r] = [q EXCEPT !.pc = "redeem"] @@ [id |-> newId]]
              /\ resp' = Reply("createInvoice", "api", 0, newId, "saved", 0)
         ELSE /\ reqs' = [reqs EXCEPT ![r] = [pc |-> "done"]]
              /\ resp' = Reply("createInvoice", "api", 200, newId, q.serviceVisitId, 0)
    /\ UNCHANGED <<customers, products, visits, warranties, coupons, vehicles, pdfFiles, now>>

\* lines 4501-4526: the coupon update completes and the route answers
CreateRedeem(r) ==
    LET q == reqs[r]
    IN
    /\ q.pc = "redeem"
    /\ coupons' = Redeemed(q.outcome.couponId, q.id, q.customer, q.outcome.discountAmount)
    /\ reqs' = [reqs EXCEPT ![r] = [pc |-> "done"]]
    /\ resp' = Reply("createInvoice", "api", 200, q.id, q.serviceVisitId, 0)
    /\ UNCHANGED <<customers, products, visits, invoices, warranties, vehicles, pdfFiles, now>>

\* the process dies, or the request is aborted, between two awaits: the
\* writes not yet made are never made
CreateCrash(r) ==
    /\ reqs[r].pc \in {"save", "redeem"}
    /\ reqs' = [reqs EXCEPT ![r] = [pc |-> "done"]]
    /\ resp' = Reply("crash", None, 0,
                     IF reqs[r].pc = "redeem" THEN reqs[r].id ELSE None, reqs[r].pc, 0)
    /\ UNCHANGED <<customers, products, visits, invoices, warranties, coupons, vehicles, pdfFiles, now>>

\* the race is followed over the first invoices the store hands out
RaceIdSet == {IdSeq[n] : n \in {m \in DOMAIN IdSeq : m < Len(IdSeq)}}

InitCreateRace ==
    /\ visits = CouponVisits
    /\ invoices = [i \in RaceIdSet |-> NoDoc]
    /\ warranties = <<>>
    /\ \E k \in 1..MaxCap, u \in {MaxCap, MaxCap + 1} :
          coupons = [c \in CouponCodes |->
                       [isActive |-> TRUE, discountType |-> "fixed", discountValue |-> 1,
                        validFrom |-> 0, validUntil |-> 4,
                        usageLimit |-> u, perCustomerLimit |-> k, minPurchaseAmount |-> 3,
                        usedCount |-> 0, usageHistory |-> <<>>]]
    /\ vehicles = <<>>
    /\ pdfFiles = {}
    /\ now = 0
    /\ reqs = [r \in ReqIds |-> Idle]
    /\ customers = RegisteredCustomers
    /\ products = StockedProducts
    /\ resp = NoResp

RaceCreateValidate ==
    \E r \in ReqIds, v \in {"V1", "V2", "V3"},
       items \in {i \in ItemLists : SumTotals(i) >= 3}, couponCode \in {None, "save1"} :
        CreateValidate(r, v, items, couponCode)
RaceCreateSave == \E r \in ReqIds : CreateSave(r)
RaceCreateRedeem == \E r \in ReqIds : CreateRedeem(r)
RaceCreateCrash == \E r \in ReqIds : CreateCrash(r)

NextCreateRace ==
    \/ RaceCreateValidate
    \/ RaceCreateSave
    \/ RaceCreateRedeem
    \/ RaceCreateCrash

SpecCreateRace == InitCreateRace /\ [][NextCreateRace]_vars

\* C12: under any interleaving of concurrent creation requests no customer has
\* more usage-history entries of a coupon than perCustomerLimit, and usedCount
\* never exceeds usageLimit.
C12_CapsHoldUnderConcurrency ==
    \A c \in DOMAIN coupons :
        /\ coupons[c].usedCount <= coupons[c].usageLimit
        /\ \A cust \in {"C1", "C2"} :
              CustomerUses(coupons[c], cust) <= coupons[c].perCustomerLimit

\* C13: every usage-history entry references a stored invoice, at every point
\* of a creation and after a crash between its writes; and usedCount equals
\* the number of usage-history entries.
C13_LedgerEntryHasInvoice ==
    \A c \in DOMAIN coupons :
        /\ coupons[c].usedCount = Len(coupons[c].usageHistory)
        /\ \A n \in 1..Len(coupons[c].usageHistory) :
              LET e == coupons[c].usageHistory[n]
              IN  /\ invoices[e.invoiceId].exists
                  /\ invoices[e.invoiceId].couponId = c
                  /\ invoices[e.invoiceId].customerId = e.customerId
                  /\ invoices[e.invoiceId].discountAmount = e.discountApplied

\* a request crashed after saving its discounted invoice and before the coupon
\* update, while another redemption is on the ledger
C13_Witness ==
    /\ resp.op = "crash" /\ resp.target = "redeem"
    /\ invoices[resp.id].exists /\ invoices[resp.id].couponId = "SAVE1"
    /\ \A n \in 1..Len(coupons["SAVE1"].usageHistory) :
          coupons["SAVE1"].usageHistory[n].invoiceId # resp.id
    /\ coupons["SAVE1"].usedCount >= 1

\* ========================================================================
\* Properties of the payment-status route and of the public PDF route
\* ========================================================================
\* C14: setPaymentStatus on an invoice whose status is not approved is refused
\* with 400 and leaves paymentStatus, paidAmount, dueAmount and paymentMethod
\* (the whole store) unchanged.
C14_UnapprovedStatusRefused ==
    [][\A id \in InvoiceIds :
          (/\ Answers({"setPaymentStatus"}, id)
           /\ invoices[id].exists
           /\ invoices[id].status # "approved")
            => (resp'.code = 400 /\ StoreUnchanged)]_vars

\* a well-formed request to mark a rejected invoice paid was refused
C14_Witness ==
    /\ resp.op = "setPaymentStatus" /\ resp.code = 400
    /\ resp.target = "paid" /\ resp.arg = "Cash"
    /\ invoices["I1"].exists /\ invoices["I1"].status = "rejected"
    /\ invoices["I1"].paymentStatus = "unpaid"

\* C15: an accepted setPaymentStatus(paid, method) leaves paidAmount =
\* totalAmount, dueAmount = 0 and the method recorded; an accepted
\* setPaymentStatus(unpaid) leaves paidAmount = 0, dueAmount = totalAmount and
\* no payment method, whatever the amounts and the method were before.
C15_PaidUnpaidAmounts ==
    [][\A id \in InvoiceIds :
          (Answers({"setPaymentStatus"}, id) /\ resp'.code = 200)
            => LET after == invoices'[id]
               IN  /\ invoices[id].status = "approved"
                   /\ after.totalAmount = invoices[id].totalAmount
                   /\ resp'.target = "paid"
                        => /\ after.paymentStatus = "paid"
                           /\ after.paidAmount = after.totalAmount
                           /\ after.dueAmount = 0
                           /\ resp'.arg # None => after.paymentMethod = resp'.arg
                   /\ resp'.target = "unpaid"
                        => /\ after.paymentStatus = "unpaid"
                           /\ after.paidAmount = 0
                           /\ after.dueAmount = after.totalAmount
                           /\ after.paymentMethod = None]_vars

\* an invoice with recorded payments was marked unpaid
C15_Witness ==
    /\ resp.op = "setPaymentStatus" /\ resp.code = 200 /\ resp.target = "unpaid"
    /\ invoices["I1"].exists
    /\ Len(invoices["I1"].payments) >= 1
    /\ SumSeq(invoices["I1"].payments) > 0
    /\ invoices["I1"].paidAmount = 0
    /\ invoices["I1"].paymentMethod = None

\* C16: no accepted setPaymentStatus call leaves paymentStatus partial unless
\* the invoice already was partial before the call.
C16_PartialOnlyByPayments ==
    [][\A id \in InvoiceIds :
          (Answers({"setPaymentStatus"}, id) /\ resp'.code = 200
             /\ invoices'[id].paymentStatus = "partial")
            => invoices[id].paymentStatus = "partial"]_vars

\* C20: the public path serves the PDF only for an approved invoice, a token
\* equal to the stored one and an expiry that has not passed; on an approved
\* invoice a missing or different token is refused as invalid and an equal
\* token past its expiry as expired, and a refusal neither renders nor stores
\* a PDF (the whole store is unchanged).
C20_PublicPdfGate ==
    [][\A id \in InvoiceIds :
          (Answers({"getPublicPdf"}, id) /\ invoices[id].exists)
            => LET invoice == invoices[id]
                   matches == invoice.pdfAccessToken # None
                                /\ resp'.arg = invoice.pdfAccessToken
                   elapsed == now > invoice.pdfTokenExpiry
               IN  /\ resp'.code = 200
                        => (invoice.status = "approved" /\ matches /\ ~elapsed)
                   /\ resp'.code # 200 => StoreUnchanged
                   /\ invoice.status # "approved" => resp'.code = 400
                   /\ (invoice.status = "approved" /\ ~matches)
                        => (resp'.code = 403 /\ resp'.target = "invalid")
                   /\ (invoice.status = "approved" /\ matches /\ elapsed)
                        => (resp'.code = 403 /\ resp'.target = "expired")]_vars

\* the stored token was presented after its expiry for an invoice whose PDF
\* had never been rendered, and no PDF exists afterwards
C20_Witness ==
    /\ resp.op = "getPublicPdf" /\ resp.code = 403 /\ resp.target = "expired"
    /\ invoices["I1"].exists /\ invoices["I1"].status = "approved"
    /\ resp.arg = invoices["I1"].pdfAccessToken
    /\ now > invoices["I1"].pdfTokenExpiry
    /\ invoices["I1"].pdfPath = None
    /\ pdfFiles = {}

\* ========================================================================
\* Properties of warranty creation and of PDF retrieval
\* ========================================================================
\* line items flagged hasWarranty and of type product
FlaggedItems(items) ==
    {i \in 1..Len(items) : items[i].hasWarranty /\ items[i].type = "product"}

\* Warranty records that reference invoice id
WarrantiesOf(ws, id) == {n \in 1..Len(ws) : ws[n].invoiceId = id}

\* C21: after an approval in which no sub-step fails, the Warranty records
\* referencing the invoice correspond one-to-one to its line items flagged
\* hasWarranty and of type product, whatever the part behind the item is.
C21_WarrantyPerFlaggedItem ==
    [][\A id \in InvoiceIds :
          (Answers({"approve"}, id) /\ resp'.code = 200)
            => LET items == invoices'[id].items
               IN  /\ Cardinality(WarrantiesOf(warranties', id))
                        = Cardinality(FlaggedItems(items))
                   /\ \A i \in FlaggedItems(items) :
                        \E n \in WarrantiesOf(warranties', id) :
                            warranties'[n].productId = items[i].productId]_vars

\* C22: an invoice that is not approved has no rendered PDF: no retrieval
\* path renders a PDF or sets pdfPath for a pending or rejected invoice.
C22_NoPdfBeforeApproval ==
    \A id \in InvoiceIds :
        (invoices[id].exists /\ invoices[id].status # "approved")
          => (invoices[id].pdfPath = None /\ PdfPathOf(id) \notin pdfFiles)

\* the access token and its expiry are both present
HasToken(invoice) == invoice.pdfAccessToken # None /\ invoice.pdfTokenExpiry # -1

\* the access token and its expiry are both absent
NoToken(invoice) == invoice.pdfAccessToken = None /\ invoice.pdfTokenExpiry = -1

\* C29: in every reachable state a stored invoice holds a token and an expiry
\* exactly when its status is approved (and holds neither otherwise); the
\* only step that changes either field is an accepted approval, which sets
\* status, token and expiry together.
C29_TokenIffApproved ==
    /\ [](\A i \in DOMAIN invoices :
            invoices[i].exists
              => /\ HasToken(invoices[i]) <=> invoices[i].status = "approved"
                 /\ ~HasToken(invoices[i]) => NoToken(invoices[i]))
    /\ [][\A i \in DOMAIN invoices :
            (/\ invoices[i].exists
             /\ \/ invoices'[i].pdfAccessToken # invoices[i].pdfAccessToken
                \/ invoices'[i].pdfTokenExpiry # invoices[i].pdfTokenExpiry)
              => /\ resp'.op = "approve" /\ resp'.code = 200 /\ resp'.id = i
                 /\ invoices[i].status = "pending_approval"
                 /\ invoices'[i].status = "approved"
                 /\ HasToken(invoices'[i])
                 /\ invoices'[i].pdfTokenExpiry = now + TokenExpiryDays]_vars

\* an approved invoice holds its token after the expiry has passed and a
\* later request was answered
C29_Witness ==
    \E i \in DOMAIN invoices :
        /\ invoices[i].exists
        /\ invoices[i].status = "approved"
        /\ HasToken(invoices[i])
        /\ now > invoices[i].pdfTokenExpiry
        /\ resp.op # "approve"

\* ========================================================================
\* Part 6: warranty-card uploads mirrored onto vehicles
\* ========================================================================
\* productId.startsWith('product-') ? productId.replace('product-', '') : productId
StripPrefix(id) ==
    CASE id = "product-P1" -> "P1"
      [] id = "product-P2" -> "P2"
      [] id = "product-P3" -> "P3"
      [] id = "product-side-step" -> "side-step"
      [] id = "product-product-P1" -> "product-P1"
      [] OTHER -> id

NoCouponOutcome ==
    [discountAmount |-> 0, couponId |-> None, discountType |-> None, discountValue |-> 0]

\* the customer's registered vehicles: one holds P1 bare, one holds P1 with
\* the legacy prefix, and one belongs to another customer
SyncVehicles ==
    [v \in {"VH1", "VH2", "VH3"} |->
        CASE v = "VH1" -> [exists |-> TRUE, customerId |-> "C1", vehicleId |-> "VEH001",
                           selectedParts |-> <<"P1">>, warrantyCards |-> <<>>]
          [] v = "VH2" -> [exists |-> TRUE, customerId |-> "C1", vehicleId |-> "VEH002",
                           selectedParts |-> <<"product-P1", "P2">>, warrantyCards |-> <<>>]
          [] OTHER -> [exists |-> TRUE, customerId |-> "C2", vehicleId |-> "VEH003",
                       selectedParts |-> <<"P1">>, warrantyCards |-> <<>>]]

SnapshotOf(v) == [vehicleId |-> SyncVehicles[v].vehicleId,
                  selectedParts |-> SyncVehicles[v].selectedParts]

\* vehicle snapshots an invoice of C1 can carry: none, one vehicle, both
Snapshots == {{}, {SnapshotOf("VH1")}, {SnapshotOf("VH1"), SnapshotOf("VH2")}}

SyncInvoiceIds == {"I1", "I2"}

InitSync ==
    /\ customers = RegisteredCustomers
    /\ products = StockedProducts
    /\ visits = [v \in VisitIds |-> ServedVisit("completed")]
    /\ \E snapshot \in Snapshots, items \in [SyncInvoiceIds -> ItemLists] :
          invoices = [i \in SyncInvoiceIds |->
                        NewInvoice("V1", "C1", snapshot, items[i], None, NoCouponOutcome)]
    /\ warranties = <<>>
    /\ coupons = <<>>
    /\ vehicles = SyncVehicles
    /\ pdfFiles = {}
    /\ now = 0
    /\ reqs = <<>>
    /\ resp = NoResp

SyncUpload ==
    \E id \in SyncInvoiceIds, itemIndex \in {-1, 0} \cup ItemIndexes,
       data \in Files \cup {BadFile} :
        UploadWarrantyCard(id, itemIndex, data)

NextSync ==
    \/ SyncUpload

SpecSync == InitSync /\ [][NextSync]_vars

\* the step is an accepted upload
Uploaded == resp'.op = "uploadCard" /\ resp'.code = 200

\* a vehicle of the invoice's customer that the invoice's snapshot names
Eligible(v, invoice) ==
    /\ vehicles[v].exists
    /\ vehicles[v].customerId = invoice.customerId
    /\ \E vd \in invoice.vehicleDetails : vd.vehicleId = vehicles[v].vehicleId

HasCardFor(cards, partId) == \E k \in 1..Len(cards) : cards[k].partId = partId

\* C23: after any upload every vehicle's warrantyCards holds at most one entry
\* per partId; an upload for a product a vehicle already holds a card for
\* leaves the length of that list unchanged and, where the card is mirrored,
\* leaves the latest file data in the entry.
C23_OneCardPerPart ==
    [][Uploaded =>
         LET invoice == invoices[resp'.id]
             item == invoice.items[resp'.amount + 1]
         IN  \A v \in DOMAIN vehicles :
               LET old == vehicles[v].warrantyCards
                   new == vehicles'[v].warrantyCards
               IN  /\ \A j, k \in 1..Len(new) : new[j].partId = new[k].partId => j = k
                   /\ HasCardFor(old, item.productId)
                        => /\ Len(new) = Len(old)
                           /\ (Eligible(v, invoice)
                                 /\ InSeq(item.productId, vehicles[v].selectedParts))
                                => \E k \in 1..Len(new) :
                                      /\ new[k].partId = item.productId
                                      /\ new[k].fileData = resp'.arg]_vars

\* a second upload for P1, through another invoice, replaced the card on VH1
C23_Witness ==
    /\ resp.op = "uploadCard" /\ resp.code = 200 /\ resp.id = "I2" /\ resp.arg = "f2"
    /\ invoices["I1"].items[1].productId = "P1"
    /\ invoices["I2"].items[1].productId = "P1"
    /\ invoices["I1"].items[1].warrantyCards = <<"f1">>
    /\ invoices["I2"].items[1].warrantyCards = <<"f2">>
    /\ vehicles["VH1"].warrantyCards = <<[partId |-> "P1", fileData |-> "f2"]>>

\* C24: a well-formed upload for a line item whose product id is in no
\* vehicle's selectedParts, or on an invoice without vehicle snapshot, answers
\* 200, appends the card to the line item and leaves every vehicle unchanged.
C24_UnmatchedUploadLeavesVehicles ==
    [][\A id \in DOMAIN invoices :
          (/\ Answers({"uploadCard"}, id)
           /\ resp'.arg \in Files
           /\ invoices[id].exists
           /\ resp'.amount >= 0 /\ resp'.amount < Len(invoices[id].items))
            => LET item == invoices[id].items[resp'.amount + 1]
               IN  (\/ invoices[id].vehicleDetails = {}
                    \/ \A v \in DOMAIN vehicles :
                          ~InSeq(item.productId, vehicles[v].selectedParts))
                     => /\ resp'.code = 200
                        /\ invoices'[id].items[resp'.amount + 1].warrantyCards
                             = Append(item.warrantyCards, resp'.arg)
                        /\ vehicles' = vehicles]_vars

\* a card for P1 was uploaded on an invoice without vehicle snapshot
C24_Witness ==
    /\ resp.op = "uploadCard" /\ resp.code = 200 /\ resp.amount = 0
    /\ invoices[resp.id].vehicleDetails = {}
    /\ invoices[resp.id].items[1].productId = "P1"
    /\ invoices[resp.id].items[1].warrantyCards # <<>>
    /\ vehicles = SyncVehicles

\* C25: an accepted upload for product P is mirrored onto every eligible
\* vehicle whose selectedParts holds P bare or with the "product-" prefix.
C25_PrefixedMatch ==
    [][Uploaded =>
         LET invoice == invoices[resp'.id]
             item == invoice.items[resp'.amount + 1]
         IN  item.productId # None =>
               \A v \in DOMAIN vehicles :
                 (/\ Eligible(v, invoice)
                  /\ \E k \in 1..Len(vehicles[v].selectedParts) :
                        StripPrefix(vehicles[v].selectedParts[k]) = StripPrefix(item.productId))
                   => \E k \in 1..Len(vehicles'[v].warrantyCards) :
                         /\ StripPrefix(vehicles'[v].warrantyCards[k].partId)
                              = StripPrefix(item.productId)
                         /\ vehicles'[v].warrantyCards[k].fileData = resp'.arg]_vars

\* ========================================================================
\* Part 7: POST /api/products/resolve-by-ids
\* ========================================================================
\* the predefined catalog behind getPartById: "side-step" is a catalog part
\* only, "P3" is a catalog id that a persisted product can also carry
Catalog ==
    [c \in {"side-step", "P3"} |-> [id |-> c, name |-> <<"catalog", c>>]]

\* part identifiers a request carries
RequestIds == {"P1", "product-P1", "P3", "product-P3", "side-step", "product-side-step"}

\* Product.findById(mongoId); an id that is no product id finds nothing (the
\* cast error is swallowed by the inner catch)
FindProduct(mongoId) ==
    IF mongoId \in DOMAIN products THEN products[mongoId] ELSE NoDoc

\* getPartById(productId)
getPartById(productId) ==
    IF productId \in DOMAIN Catalog THEN Catalog[productId] ELSE NoDoc

\* a resolver that asks the catalog before the Product collection
ResolveOneCatalogFirst(productId) ==
    LET predefinedPart == getPartById(productId)
        dbProduct == FindProduct(StripPrefix(productId))
    IN  IF "id" \in DOMAIN predefinedPart
          THEN [id |-> predefinedPart.id, name |-> predefinedPart.name,
                source |-> "predefined"]
        ELSE IF dbProduct.exists
          THEN [id |-> productId, name |-> <<"db", dbProduct.name>>, source |-> "database"]
        ELSE [id |-> productId, name |-> None, source |-> None]

\* lines 679-714: one pass of the loop; source None stands for "no productData"
ResolveOne(productId) ==
    LET mongoId == StripPrefix(productId)
        dbProduct == FindProduct(mongoId)
        predefinedPart == getPartById(productId)
    IN  IF dbProduct.exists
          THEN [id |-> productId, name |-> <<"db", dbProduct.name>>, source |-> "database"]
        ELSE IF "id" \in DOMAIN predefinedPart
          THEN [id |-> predefinedPart.id, name |-> predefinedPart.name,
                source |-> "predefined"]
        ELSE [id |-> productId, name |-> None, source |-> None]

RECURSIVE ResolvedProducts(_)
\* resolvedProducts after the loop
ResolvedProducts(productIds) ==
    IF productIds = <<>> THEN <<>>
    ELSE (IF ResolveOne(Head(productIds)).source # None
            THEN <<ResolveOne(Head(productIds))>> ELSE <<>>)
         \o ResolvedProducts(Tail(productIds))

RECURSIVE NotFoundIds(_)
\* notFoundIds after the loop
NotFoundIds(productIds) ==
    IF productIds = <<>> THEN <<>>
    ELSE (IF ResolveOne(Head(productIds)).source = None
            THEN <<Head(productIds)>> ELSE <<>>)
         \o NotFoundIds(Tail(productIds))

\* POST /api/products/resolve-by-ids; isArray is FALSE for a body whose
\* productIds is not an array
ResolveByIds(isArray, productIds) ==
    /\ IF ~isArray
         THEN /\ resp' = Reply("resolve", "api", 400, None, None, 0)
              /\ reqs' = [productIds |-> <<>>, products |-> <<>>, notFound |-> <<>>]
         ELSE /\ resp' = Reply("resolve", "api", 200, None, None, 0)
              /\ reqs' = [productIds |-> productIds,
                          products |-> ResolvedProducts(productIds),
                          notFound |-> NotFoundIds(productIds)]
    /\ UNCHANGED <<visits, invoices, warranties, coupons, vehicles, customers, products,
                   pdfFiles, now>>

RECURSIVE SeqsUpTo(_, _)
\* the sequences over S of length at most n
SeqsUpTo(S, n) ==
    IF n = 0 THEN {<<>>}
    ELSE SeqsUpTo(S, n - 1) \cup
         {Append(q, x) : q \in {r \in SeqsUpTo(S, n - 1) : Len(r) = n - 1}, x \in S}

InitResolve ==
    /\ visits = [v \in VisitIds |-> NoDoc]
    /\ invoices = [i \in InvoiceIds |-> NoDoc]
    /\ warranties = <<>>
    /\ coupons = <<>>
    /\ vehicles = <<>>
    /\ customers = RegisteredCustomers
    /\ \E stocked \in SUBSET {"P1", "P2", "P3"} :
          products = [p \in {"P1", "P2", "P3"} |->
                        IF p \in stocked
                          THEN [exists |-> TRUE, name |-> p, warranty |-> None]
                          ELSE NoDoc]
    /\ pdfFiles = {}
    /\ now = 0
    /\ reqs = [productIds |-> <<>>, products |-> <<>>, notFound |-> <<>>]
    /\ resp = NoResp

ApiResolve ==
    \E isArray \in BOOLEAN, productIds \in SeqsUpTo(RequestIds, MaxIds) :
        ResolveByIds(isArray, productIds)

NextResolve ==
    \/ ApiResolve

SpecResolve == InitResolve /\ [][NextResolve]_vars

\* a persisted product exists for the stripped identifier
Persisted(id) ==
    /\ StripPrefix(id) \in DOMAIN products
    /\ products[StripPrefix(id)].exists

\* answers of the last resolve request that carry identifier id from source
FromSource(id, source) ==
    {k \in 1..Len(reqs.products) :
        reqs.products[k].id = id /\ reqs.products[k].source = source}

\* C26: for every identifier of a resolve request: the answer uses the
\* persisted product exactly when one exists for the stripped identifier (also
\* when the catalog has an entry of the same id), and keeps the identifier as
\* sent; it uses the catalog entry exactly when no persisted product exists
\* and the catalog holds the unstripped identifier; otherwise the identifier
\* is in notFound; and the batch answers 200 with every identifier accounted
\* for once.
C26_ResolverPrecedence ==
    resp.op = "resolve" /\ resp.code = 200
      => /\ Len(reqs.products) + Len(reqs.notFound) = Len(reqs.productIds)
         /\ \A n \in 1..Len(reqs.productIds) :
              LET id == reqs.productIds[n]
              IN  /\ (FromSource(id, "database") # {}) <=> Persisted(id)
                  /\ (FromSource(id, "predefined") # {})
                        <=> (~Persisted(id) /\ id \in DOMAIN Catalog)
                  /\ InSeq(id, reqs.notFound)
                        <=> (~Persisted(id) /\ id \notin DOMAIN Catalog)

\* one batch: "P3" exists both as persisted product and as catalog id and is
\* answered from the database; "product-side-step" has no persisted product
\* and the catalog, asked with the prefix on, misses it
C26_Witness ==
    /\ resp.op = "resolve" /\ resp.code = 200
    /\ reqs.productIds = <<"P3", "product-side-step">>
    /\ products["P3"].exists
    /\ Len(reqs.products) = 1 /\ reqs.products[1].source = "database"
    /\ reqs.notFound = <<"product-side-step">>

\* ========================================================================
\* Part 8: invoice snapshots against later customer and vehicle changes
\* ========================================================================
\* Object.keys(body).forEach / findByIdAndUpdate(id, body): the fields the
\* body names replace the document's
Merged(doc, body) ==
    [k \in DOMAIN doc |-> IF k \in DOMAIN body THEN body[k] ELSE doc[k]]

\* PATCH /api/registration/customers/:id
PatchCustomer(id, body) ==
    /\ IF ~customers[id].exists
         THEN /\ resp' = Reply("patchCustomer", "api", 404, id, None, 0)
              /\ UNCHANGED customers
         ELSE /\ customers' = [customers EXCEPT ![id] = Merged(@, body)]
              /\ resp' = Reply("patchCustomer", "api", 200, id, None, 0)
    /\ UNCHANGED <<visits, invoices, warranties, coupons, vehicles, products, pdfFiles,
                   now, reqs>>

\* PATCH /api/registration/vehicles/:id
PatchVehicle(id, body) ==
    /\ IF ~vehicles[id].exists
         THEN /\ resp' = Reply("patchVehicle", "api", 404, id, None, 0)
              /\ UNCHANGED vehicles
         ELSE /\ vehicles' = [vehicles EXCEPT ![id] = Merged(@, body)]
              /\ resp' = Reply("patchVehicle", "api", 200, id, None, 0)
    /\ UNCHANGED <<visits, invoices, warranties, coupons, customers, products, pdfFiles,
                   now, reqs>>

\* DELETE /api/registration/vehicles/:id
DeleteVehicle(id) ==
    /\ vehicles' = [vehicles EXCEPT ![id] = NoDoc]
    /\ resp' = Reply("deleteVehicle", "api", 200, id, None, 0)
    /\ UNCHANGED <<visits, invoices, warranties, coupons, customers, products, pdfFiles,
                   now, reqs>>

\* DELETE /api/registration/customers/:id: the customer's vehicles and service
\* visits go with the customer
DeleteCustomer(id) ==
    /\ IF ~customers[id].exists
         THEN /\ resp' = Reply("deleteCustomer", "api", 404, id, None, 0)
              /\ UNCHANGED <<customers, vehicles, visits>>
         ELSE /\ vehicles' = [v \in DOMAIN vehicles |->
                                IF vehicles[v].exists /\ vehicles[v].customerId = id
                                  THEN NoDoc ELSE vehicles[v]]
              /\ visits' = [v \in DOMAIN visits |->
                              IF visits[v].exists /\ visits[v].customerId = id
                                THEN NoDoc ELSE visits[v]]
              /\ customers' = [customers EXCEPT ![id] = NoDoc]
              /\ resp' = Reply("deleteCustomer", "api", 200, id, None, 0)
    /\ UNCHANGED <<invoices, warranties, coupons, products, pdfFiles, now, reqs>>

SnapshotInvoiceIds == InvoiceIds

\* one completed visit of C1 and one of C2
SnapshotVisitIds == {"V1", "V2"}

\* fields a customer update sends
CustomerBodies ==
    {[fullName |-> "renamed"], [fullName |-> "renamed", mobileNumber |-> "moved"]}

\* fields a vehicle update sends
VehicleBodies == {[selectedParts |-> <<"P2">>]}

InitSnapshot ==
    /\ customers = RegisteredCustomers
    /\ products = StockedProducts
    /\ visits = [v \in SnapshotVisitIds |->
                   IF v = "V1" THEN ServedVisit("completed")
                   ELSE [ServedVisit("completed") EXCEPT !.customerId = "C2"]]
    /\ invoices = [i \in SnapshotInvoiceIds |-> NoDoc]
    /\ warranties = <<>>
    /\ coupons = <<>>
    /\ vehicles = SyncVehicles
    /\ pdfFiles = {}
    /\ now = 0
    /\ reqs = <<>>
    /\ resp = NoResp

SnapshotCreate ==
    \E newId \in SnapshotInvoiceIds, serviceVisitId \in SnapshotVisitIds :
        CreateInvoiceFromServiceVisit(newId, serviceVisitId,
                                      <<Item("P1", "product", 2, TRUE)>>, None)

SnapshotPatchCustomer ==
    \E id \in DOMAIN RegisteredCustomers, body \in CustomerBodies : PatchCustomer(id, body)

SnapshotPatchVehicle ==
    \E id \in DOMAIN SyncVehicles, body \in VehicleBodies : PatchVehicle(id, body)

SnapshotDeleteVehicle ==
    \E id \in DOMAIN SyncVehicles : DeleteVehicle(id)

SnapshotDeleteCustomer ==
    \E id \in DOMAIN RegisteredCustomers : DeleteCustomer(id)

NextSnapshot ==
    \/ SnapshotCreate
    \/ SnapshotPatchCustomer
    \/ SnapshotPatchVehicle
    \/ SnapshotDeleteVehicle
    \/ SnapshotDeleteCustomer

SpecSnapshot == InitSnapshot /\ [][NextSnapshot]_vars

\* C27: the step that creates an invoice stores the customer's fields and one
\* entry for every vehicle the customer has at that moment, and for no other
\* vehicle; every later step (customer update, vehicle update, vehicle
\* deletion, customer deletion with its cascade) leaves both snapshots of
\* every stored invoice as they were.
C27_SnapshotsFixedAtCreation ==
    [][\A i \in DOMAIN invoices :
         /\ invoices[i].exists
              => /\ invoices'[i].exists
                 /\ invoices'[i].customerDetails = invoices[i].customerDetails
                 /\ invoices'[i].vehicleDetails = invoices[i].vehicleDetails
         /\ (~invoices[i].exists /\ invoices'[i].exists)
              => LET customer == invoices'[i].customerId
                 IN  /\ invoices'[i].customerDetails.fullName = customers[customer].fullName
                     /\ invoices'[i].customerDetails.mobileNumber
                           = customers[customer].mobileNumber
                     /\ \A v \in DOMAIN vehicles :
                          (vehicles[v].exists /\ vehicles[v].customerId = customer)
                            => \E vd \in invoices'[i].vehicleDetails :
                                  /\ vd.vehicleId = vehicles[v].vehicleId
                                  /\ vd.selectedParts = vehicles[v].selectedParts
                     /\ \A vd \in invoices'[i].vehicleDetails :
                          \E v \in DOMAIN vehicles :
                             /\ vehicles[v].exists
                             /\ vehicles[v].customerId = customer
                             /\ vd.vehicleId = vehicles[v].vehicleId
                             /\ vd.selectedParts = vehicles[v].selectedParts]_vars

\* an invoice of C1 keeps the name and both vehicles it was created with
\* after C1 was renamed and then deleted together with the vehicles
C27_Witness ==
    /\ resp.op = "deleteCustomer" /\ resp.code = 200 /\ resp.id = "C1"
    /\ \E i \in DOMAIN invoices :
          /\ invoices[i].exists
          /\ invoices[i].customerId = "C1"
          /\ invoices[i].customerDetails.fullName = RegisteredCustomers["C1"].fullName
          /\ Cardinality(invoices[i].vehicleDetails) = 2
    /\ ~customers["C1"].exists
    /\ \A v \in DOMAIN vehicles : vehicles[v].exists => vehicles[v].customerId # "C1"

\* ========================================================================
\* Part 9: visit transitions, request by request
\* ========================================================================
\* the request under way is kept in reqs: the edit form's state before the
\* update button is pressed, or the body of a PATCH sent to the route
TransitionImages == {<<>>, <<"b64">>}

FormRequests ==
    [via : {"ui"}, id : VisitIds,
     body : [status : {Some(s) : s \in Statuses},
             handlerIds : {Some(h) : h \in SUBSET Handlers},
             beforeImages : {Some(l) : l \in TransitionImages},
             afterImages : {Some(l) : l \in TransitionImages}]]

PatchRequests ==
    [via : {"api"}, id : VisitIds,
     body : [status : {Undefined} \cup {Some(s) : s \in Statuses},
             handlerIds : {Undefined} \cup {Some(h) : h \in SUBSET Handlers},
             beforeImages : {Undefined, Some(<<"bad">>)},
             afterImages : {Undefined, Some(<<"b64">>)}]]

InitTransitions ==
    /\ visits = [v \in VisitIds |->
                   [exists |-> TRUE, customerId |-> "C1", status |-> "inquired",
                    handlerIds |-> {}, beforeImages |-> <<>>, afterImages |-> <<>>,
                    stageTimestamps |-> {"inquired"}]]
    /\ invoices = [i \in InvoiceIds |-> NoDoc]
    /\ warranties = <<>>
    /\ coupons = <<>>
    /\ vehicles = <<>>
    /\ customers = RegisteredCustomers
    /\ products = StockedProducts
    /\ pdfFiles = {}
    /\ now = 0
    /\ reqs = [via |-> None]
    /\ resp = NoResp

\* the user fills the edit form of a visit
FillForm ==
    /\ \E r \in FormRequests : visits[r.id].exists /\ reqs' = r
    /\ UNCHANGED <<visits, invoices, warranties, coupons, vehicles, customers, products,
                   pdfFiles, now, resp>>

\* the user presses the update button
SubmitForm ==
    /\ reqs.via = "ui"
    /\ handleStatusUpdate(reqs.id, Get(reqs.body.status), Get(reqs.body.handlerIds),
                          Get(reqs.body.beforeImages), Get(reqs.body.afterImages))

\* a client sends a PATCH to the route
SendPatch ==
    /\ \E r \in PatchRequests : reqs' = r
    /\ UNCHANGED <<visits, invoices, warranties, coupons, vehicles, customers, products,
                   pdfFiles, now, resp>>

\* the route handles it
HandlePatch ==
    /\ reqs.via = "api"
    /\ PatchServiceVisit(reqs.id, "api", reqs.body)

NextTransitions ==
    \/ FillForm
    \/ SubmitForm
    \/ SendPatch
    \/ HandlePatch

SpecTransitions == InitTransitions /\ [][NextTransitions]_vars

\* the handler and image preconditions of the request's target status, over
\* the handlers and images the visit would hold
TargetPreconditions ==
    LET visit == visits[reqs.id]
        target == TargetOf(reqs.body)
        handlerIds == OrElse(reqs.body.handlerIds, visit.handlerIds)
        beforeImages == OrElse(reqs.body.beforeImages, visit.beforeImages)
        afterImages == OrElse(reqs.body.afterImages, visit.afterImages)
    IN  /\ target \in NonInquired => handlerIds # {}
        /\ target \in {"working", "waiting"} => Len(beforeImages) >= 1
        /\ target = "completed" => Len(afterImages) >= 1
        /\ validateImages(beforeImages)
        /\ validateImages(afterImages)

\* the step answers 200 and leaves the visit in the target status, stamped,
\* with the handlers and images of the request
StoredAsRequested ==
    LET visit == visits[reqs.id]
        target == TargetOf(reqs.body)
    IN  /\ resp'.op = "patchVisit" /\ resp'.code = 200 /\ resp'.target = target
        /\ visits'[reqs.id].status = target
        /\ target \in visits'[reqs.id].stageTimestamps
        /\ visits'[reqs.id].handlerIds = OrElse(reqs.body.handlerIds, visit.handlerIds)
        /\ visits'[reqs.id].beforeImages = OrElse(reqs.body.beforeImages, visit.beforeImages)
        /\ visits'[reqs.id].afterImages = OrElse(reqs.body.afterImages, visit.afterImages)

\* the step handles the request under way, which names a target status
HandlesRequest ==
    /\ reqs' = reqs
    /\ reqs.via # None
    /\ visits[reqs.id].exists
    /\ reqs.body.status # Undefined

\* the form differs from the stored visit
FormChanged ==
    \/ Get(reqs.body.status) # visits[reqs.id].status
    \/ Get(reqs.body.handlerIds) # visits[reqs.id].handlerIds
    \/ Get(reqs.body.beforeImages) # visits[reqs.id].beforeImages
    \/ Get(reqs.body.afterImages) # visits[reqs.id].afterImages

\* C28 as stated: from every current status, an update to any of the four
\* statuses whose handler and image preconditions hold is accepted, through
\* the route and through the service page alike.
C28_AcceptedWheneverPreconditionsHold ==
    [][(HandlesRequest /\ TargetPreconditions) => StoredAsRequested]_vars

\* C28: from every current status, an update to any of the four statuses
\* whose handler and image preconditions hold is accepted, regressions
\* included and inquired with no handler and no image included, provided a
\* submission of the service page differs from the stored visit in status,
\* handlers or images.
C28_TransitionsUnordered ==
    [][(/\ HandlesRequest
        /\ TargetPreconditions
        /\ reqs.via = "ui" => FormChanged)
          => StoredAsRequested]_vars

\* the service page moved a completed visit back to inquired with no handler
\* and no image
C28_Witness ==
    /\ reqs.via = "ui"
    /\ resp.op = "patchVisit" /\ resp.via = "ui" /\ resp.code = 200
    /\ resp.id = reqs.id /\ resp.target = "inquired"
    /\ visits[reqs.id].status = "inquired"
    /\ "completed" \in visits[reqs.id].stageTimestamps
    /\ visits[reqs.id].handlerIds = {}
    /\ visits[reqs.id].beforeImages = <<>>
    /\ visits[reqs.id].afterImages = <<>>

\* ========================================================================
\* Part 10: the approve route, step by step
\* ========================================================================
\* the awaited steps of POST /api/invoices/:id/approve in program order; reqs
\* holds the request under way: its position, the steps it has attempted and
\* the steps that threw
ApproveSteps == <<"save", "pdf", "warranty", "notify", "log">>

IdleRequest == [pc |-> "idle", id |-> None, attempted |-> <<>>, failed |-> {}]

\* the request moves on from `step`, which threw or not
Advance(step, to, threw) ==
    reqs' = [reqs EXCEPT !.pc = to,
                         !.attempted = Append(@, step),
                         !.failed = IF threw THEN @ \cup {step} ELSE @]

\* lines 4533-4594: lookup, status check and the first save; a throwing save
\* ends the request in the outer catch
ApproveBegin(id, userId, token, saveThrows) ==
    LET invoice == Lookup(id)
    IN
    /\ reqs.pc \in {"idle", "done"}
    /\ IF ~invoice.exists
         THEN /\ resp' = Reply("approve", "api", 404, id, None, 0)
              /\ UNCHANGED <<invoices, reqs>>
       ELSE IF invoice.status # "pending_approval"
         THEN /\ resp' = Reply("approve", "api", 400, id, invoice.status, 0)
              /\ UNCHANGED <<invoices, reqs>>
       ELSE IF saveThrows
         THEN /\ resp' = Reply("approve", "api", 500, id, None, 0)
              /\ UNCHANGED <<invoices, reqs>>
       ELSE
         /\ invoices' = [invoices EXCEPT ![id] = Approved(invoice, userId, token)]
         /\ reqs' = [pc |-> "pdf", id |-> id, attempted |-> <<"save">>, failed |-> {}]
         /\ resp' = Reply("approve", "step", 0, id, "save", 0)
    /\ UNCHANGED <<visits, warranties, coupons, vehicles, customers, products, pdfFiles, now>>

\* a PDF step whose failure ends the request
ApprovePdfAborts(renderThrows, saveThrows) ==
    /\ reqs.pc = "pdf"
    /\ pdfFiles' = IF renderThrows THEN pdfFiles ELSE pdfFiles \cup {PdfPathOf(reqs.id)}
    /\ invoices' = IF renderThrows \/ saveThrows THEN invoices
                   ELSE [invoices EXCEPT ![reqs.id].pdfPath = PdfPathOf(reqs.id)]
    /\ Advance("pdf", IF renderThrows \/ saveThrows THEN "done" ELSE "warranty",
               renderThrows \/ saveThrows)
    /\ resp' = Reply("approve", "step", 0, reqs.id, "pdf", 0)
    /\ UNCHANGED <<visits, warranties, coupons, vehicles, customers, products, now>>

\* lines 4597-4635: generateInvoicePDF, then pdfPath saved; either may throw
\* into the step's own catch
ApprovePdf(renderThrows, saveThrows) ==
    /\ reqs.pc = "pdf"
    /\ pdfFiles' = IF renderThrows THEN pdfFiles ELSE pdfFiles \cup {PdfPathOf(reqs.id)}
    /\ invoices' = IF renderThrows \/ saveThrows THEN invoices
                   ELSE [invoices EXCEPT ![reqs.id].pdfPath = PdfPathOf(reqs.id)]
    /\ Advance("pdf", "warranty", renderThrows \/ saveThrows)
    /\ resp' = Reply("approve", "step", 0, reqs.id, "pdf", 0)
    /\ UNCHANGED <<visits, warranties, coupons, vehicles, customers, products, now>>

\* lines 4638-4669: the Warranty.create calls run together; those in `made`
\* succeed, and the step throws when one of them does not
ApproveWarranties(made) ==
    LET invoice == invoices[reqs.id]
    IN  /\ reqs.pc = "warranty"
        /\ made \subseteq WarrantyItems(invoice.items)
        /\ warranties' = warranties \o WarrantyDocs(invoice, reqs.id, made, 1)
        /\ Advance("warranty", "notify", made # WarrantyItems(invoice.items))
        /\ resp' = Reply("approve", "step", 0, reqs.id, "warranty", 0)
        /\ UNCHANGED <<visits, invoices, coupons, vehicles, customers, products, pdfFiles, now>>

\* lines 4673-4679: sendInvoiceNotifications inside its own try/catch
ApproveNotify(notifyThrows) ==
    /\ reqs.pc = "notify"
    /\ Advance("notify", "log", notifyThrows)
    /\ resp' = Reply("approve", "step", 0, reqs.id, "notify", 0)
    /\ UNCHANGED <<visits, invoices, warranties, coupons, vehicles, customers, products,
                   pdfFiles, now>>

\* lines 4681-4696: logActivity inside its own try/catch, then res.json
ApproveLog(logThrows) ==
    /\ reqs.pc = "log"
    /\ Advance("log", "done", logThrows)
    /\ resp' = Reply("approve", "api", 200, reqs.id, "approved", 0)
    /\ UNCHANGED <<visits, invoices, warranties, coupons, vehicles, customers, products,
                   pdfFiles, now>>

InitApproveSteps ==
    /\ customers = RegisteredCustomers
    /\ products = StockedProducts
    /\ visits = [v \in VisitIds |-> ServedVisit("completed")]
    /\ \E items \in ItemLists :
          invoices = [i \in InvoiceIds |->
                        NewInvoice("V1", "C1", {}, items, None, NoCouponOutcome)]
    /\ warranties = <<>>
    /\ coupons = <<>>
    /\ vehicles = <<>>
    /\ pdfFiles = {}
    /\ now = 0
    /\ reqs = IdleRequest
    /\ resp = NoResp

StepBegin ==
    \E id \in InvoiceIds \cup {"I9"}, userId \in Users, token \in Tokens,
       saveThrows \in BOOLEAN :
        ApproveBegin(id, userId, token, saveThrows)

StepPdf == \E renderThrows \in BOOLEAN, saveThrows \in BOOLEAN : ApprovePdf(renderThrows, saveThrows)

StepWarranties == \E made \in SUBSET ItemIndexes : ApproveWarranties(made)

StepNotify == \E notifyThrows \in BOOLEAN : ApproveNotify(notifyThrows)

StepLog == \E logThrows \in BOOLEAN : ApproveLog(logThrows)

NextApproveSteps ==
    \/ StepBegin
    \/ StepPdf
    \/ StepWarranties
    \/ StepNotify
    \/ StepLog
    \/ Tick

SpecApproveSteps == InitApproveSteps /\ [][NextApproveSteps]_vars

\* the position a request is at after k attempted steps
PositionAfter(k) ==
    IF k = 0 THEN "idle"
    ELSE IF k = Len(ApproveSteps) THEN "done"
    ELSE ApproveSteps[k + 1]

\* s is a prefix of t
IsPrefix(s, t) == Len(s) <= Len(t) /\ s = SubSeq(t, 1, Len(s))

\* C30: once any later step of an approval has been attempted or is about to
\* start, the approved status, the token and its expiry are stored; the steps
\* are attempted in program order (save, PDF, warranties, notification, log)
\* and the position of the request depends on how many steps were attempted
\* only, never on which of them threw; and no step takes back what an earlier
\* one stored: status, token, expiry and a stored pdfPath stay, PDF files and
\* warranty records are only added.
C30_ApproveStepOrder ==
    /\ [](/\ IsPrefix(reqs.attempted, ApproveSteps)
          /\ reqs.pc = PositionAfter(Len(reqs.attempted))
          /\ reqs.failed \subseteq {reqs.attempted[k] : k \in 1..Len(reqs.attempted)}
          /\ reqs.pc # "idle"
               => /\ invoices[reqs.id].status = "approved"
                  /\ HasToken(invoices[reqs.id]))
    /\ [][reqs.pc \notin {"idle", "done"}
            => /\ invoices'[reqs.id].status = invoices[reqs.id].status
               /\ invoices'[reqs.id].approvalStatus = invoices[reqs.id].approvalStatus
               /\ invoices'[reqs.id].pdfAccessToken = invoices[reqs.id].pdfAccessToken
               /\ invoices'[reqs.id].pdfTokenExpiry = invoices[reqs.id].pdfTokenExpiry
               /\ invoices[reqs.id].pdfPath # None
                    => invoices'[reqs.id].pdfPath = invoices[reqs.id].pdfPath
               /\ pdfFiles \subseteq pdfFiles'
               /\ IsPrefix(warranties, warranties')]_vars

\* an approval whose PDF, warranty and notification steps all threw ran to
\* its end: the invoice is approved with its token and without a PDF path
C30_Witness ==
    /\ reqs.pc = "done"
    /\ reqs.attempted = ApproveSteps
    /\ {"pdf", "warranty", "notify"} \subseteq reqs.failed
    /\ invoices[reqs.id].status = "approved"
    /\ HasToken(invoices[reqs.id])
    /\ invoices[reqs.id].pdfPath = None
    /\ resp.op = "approve" /\ resp.code = 200

\* ========================================================================
\* Stored visits against the phase preconditions
\* ========================================================================
\* C31: in every reachable state, visits created by POST as well as updated
\* ones counted, a stored visit in working or waiting has at least one handler
\* and one before-image, and a stored visit in completed has at least one
\* handler and one after-image.
C31_StoredVisitMeetsPreconditions ==
    \A id \in VisitIds :
        visits[id].exists
          => /\ visits[id].status \in {"working", "waiting"}
                  => /\ visits[id].handlerIds # {}
                     /\ Len(visits[id].beforeImages) >= 1
             /\ visits[id].status = "completed"
                  => /\ visits[id].handlerIds # {}
                     /\ Len(visits[id].afterImages) >= 1

\* ========================================================================
\* Part 11: concurrent approve and reject requests on one invoice
\* ========================================================================
\* Each request yields at `await Invoice.findById`, runs its status check on
\* the copy it loaded, and yields again at every later await.  save() writes
\* the paths the request assigned on its own copy.
DecideReqs == {1, 2, 3}

\* findById resolves and the status check runs on the loaded copy
DecideLoad(r, kind, id, userId, token) ==
    LET invoice == Lookup(id)
    IN
    /\ reqs[r].pc = "idle"
    /\ IF ~invoice.exists
         THEN /\ resp' = Reply(kind, "api", 404, id, None, 0)
              /\ reqs' = [reqs EXCEPT ![r] = [pc |-> "done", kind |-> kind, code |-> 404]]
       ELSE IF invoice.status # "pending_approval"
         THEN /\ resp' = Reply(kind, "api", 400, id, invoice.status, 0)
              /\ reqs' = [reqs EXCEPT ![r] = [pc |-> "done", kind |-> kind, code |-> 400]]
       ELSE
         /\ resp' = Reply(kind, "step", 0, id, "loaded", 0)
         /\ reqs' = [reqs EXCEPT ![r] =
                       [pc |-> "save", kind |-> kind, code |-> 0, id |-> id,
                        userId |-> userId, token |-> token, loaded |-> invoice]]
    /\ UNCHANGED <<visits, invoices, warranties, coupons, vehicles, customers, products,
                   pdfFiles, now>>

\* approve, lines 4573-4594: status, approval record, token and expiry are
\* saved; the request goes on to the PDF step
DecideSaveApprove(r) ==
    LET q == reqs[r]
    IN  /\ q.pc = "save" /\ q.kind = "approve"
        /\ invoices' = [invoices EXCEPT ![q.id] = Approved(@, q.userId, q.token)]
        /\ reqs' = [reqs EXCEPT ![r].pc = "pdf", ![r].code = 200]
        /\ resp' = Reply("approve", "step", 0, q.id, "save", 0)
        /\ UNCHANGED <<visits, warranties, coupons, vehicles, customers, products,
                       pdfFiles, now>>

\* reject, lines 4740-4748: status and rejection record are saved and the
\* route answers
DecideSaveReject(r) ==
    LET q == reqs[r]
    IN  /\ q.pc = "save" /\ q.kind = "reject"
        /\ invoices' = [invoices EXCEPT ![q.id] =
              [@ EXCEPT !.status = "rejected",
                        !.approvalStatus = [NoApproval EXCEPT !.rejectedBy = q.userId,
                                                              !.rejectedAt = now,
                                                              !.rejectionReason = "r1"]]]
        /\ reqs' = [reqs EXCEPT ![r].pc = "done", ![r].code = 200]
        /\ resp' = Reply("reject", "api", 200, q.id, "rejected", 0)
        /\ UNCHANGED <<visits, warranties, coupons, vehicles, customers, products,
                       pdfFiles, now>>

\* approve, lines 4597-4635, the renderer succeeding: the PDF is written and
\* pdfPath saved
DecidePdf(r) ==
    LET q == reqs[r]
    IN  /\ q.pc = "pdf"
        /\ pdfFiles' = pdfFiles \cup {PdfPathOf(q.id)}
        /\ invoices' = [invoices EXCEPT ![q.id].pdfPath = PdfPathOf(q.id)]
        /\ reqs' = [reqs EXCEPT ![r].pc = "warranty"]
        /\ resp' = Reply("approve", "step", 0, q.id, "pdf", 0)
        /\ UNCHANGED <<visits, warranties, coupons, vehicles, customers, products, now>>

\* approve, lines 4638-4698, no step throwing: the warranties of the loaded
\* copy's items are created and the route answers
DecideWarranties(r) ==
    LET q == reqs[r]
    IN  /\ q.pc = "warranty"
        /\ warranties' = warranties \o
              WarrantyDocs(q.loaded, q.id, WarrantyItems(q.loaded.items), 1)
        /\ reqs' = [reqs EXCEPT ![r].pc = "done"]
        /\ resp' = Reply("approve", "api", 200, q.id, "approved", 0)
        /\ UNCHANGED <<visits, invoices, coupons, vehicles, customers, products,
                       pdfFiles, now>>

InitDecide ==
    /\ customers = RegisteredCustomers
    /\ products = StockedProducts
    /\ visits = [v \in VisitIds |-> ServedVisit("completed")]
    /\ \E items \in ItemLists :
          invoices = [i \in InvoiceIds |->
                        NewInvoice("V1", "C1", {}, items, None, NoCouponOutcome)]
    /\ warranties = <<>>
    /\ coupons = <<>>
    /\ vehicles = <<>>
    /\ pdfFiles = {}
    /\ now = 0
    /\ reqs = [r \in DecideReqs |-> Idle]
    /\ resp = NoResp

RaceDecideLoad ==
    \E r \in DecideReqs, kind \in {"approve", "reject"}, id \in InvoiceIds,
       userId \in Users, token \in Tokens :
        DecideLoad(r, kind, id, userId, token)

RaceSaveApprove == \E r \in DecideReqs : DecideSaveApprove(r)

RaceSaveReject == \E r \in DecideReqs : DecideSaveReject(r)

RacePdf == \E r \in DecideReqs : DecidePdf(r)

RaceWarranties == \E r \in DecideReqs : DecideWarranties(r)

NextDecide ==
    \/ RaceDecideLoad
    \/ RaceSaveApprove
    \/ RaceSaveReject
    \/ RacePdf
    \/ RaceWarranties

SpecDecide == InitDecide /\ [][NextDecide]_vars

\* request r has succeeded as `kind`: its save went through
Succeeded(r, kind) ==
    /\ reqs[r].pc \notin {"idle", "save"}
    /\ reqs[r].kind = kind
    /\ reqs[r].code = 200

\* C32: under any interleaving of approve and reject requests on one pending
\* invoice at most one succeeds: once an approve has succeeded the invoice is
\* never rejected, and once a reject has succeeded it is never approved.
C32_OneDecisionWins ==
    \A id \in InvoiceIds :
        /\ (\E r \in DecideReqs : Succeeded(r, "approve"))
              => invoices[id].status # "rejected"
        /\ (\E r \in DecideReqs : Succeeded(r, "reject"))
              => invoices[id].status # "approved"

\* C33: under any interleaving of approve requests on one invoice, no line
\* item of the invoice has more than one Warranty record.
C33_OneWarrantyPerItem ==
    \A id \in InvoiceIds :
        \A k, l \in 1..Len(warranties) :
            (/\ warranties[k].invoiceId = id
             /\ warranties[l].invoiceId = id
             /\ warranties[k].productId = warranties[l].productId)
              => k = l

\* ========================================================================
\* Amount ranges and the payment ledger
\* ========================================================================
\* C34: after every recordPayment and setPaymentStatus call, whatever the
\* amounts sent (zero and negative ones included), paidAmount and dueAmount
\* of every invoice lie between 0 and totalAmount.
C34_AmountsWithinTotal ==
    \A id \in DOMAIN invoices :
        invoices[id].exists
          => /\ 0 <= invoices[id].paidAmount
             /\ invoices[id].paidAmount <= invoices[id].totalAmount
             /\ 0 <= invoices[id].dueAmount
             /\ invoices[id].dueAmount <= invoices[id].totalAmount

\* C35: after every recordPayment and setPaymentStatus call paidAmount is the
\* sum of the amounts in the invoice's payment ledger, and a step never
\* removes or alters a ledger entry.
C35_PaidIsLedgerSum ==
    /\ [](\A id \in DOMAIN invoices :
            invoices[id].exists
              => invoices[id].paidAmount = SumSeq(invoices[id].payments))
    /\ [][\A id \in DOMAIN invoices :
            (invoices[id].exists /\ invoices'[id].exists)
              => /\ Len(invoices[id].payments) <= Len(invoices'[id].payments)
                 /\ SubSeq(invoices'[id].payments, 1, Len(invoices[id].payments))
                       = invoices[id].payments]_vars

\* ========================================================================
\* Coupon usage against the stored invoices
\* ========================================================================
\* usage-history entries of coupon c that name invoice id
UsageEntries(c, id) ==
    {n \in 1..Len(coupons[c].usageHistory) : coupons[c].usageHistory[n].invoiceId = id}

\* C36: whenever a creation request validates a coupon, every stored invoice
\* that carries a coupon reference and a discount has exactly one
\* usage-history entry on that coupon, and usedCount counts as many entries as
\* there are such invoices; also after a request ended between saving its
\* invoice and updating the coupon.
C36_UsageReflectedBeforeValidation ==
    [][(resp'.op = "createInvoice" /\ resp'.target = "validated")
         => \A c \in DOMAIN coupons :
              /\ \A id \in DOMAIN invoices :
                   (/\ invoices[id].exists
                    /\ invoices[id].couponId = c
                    /\ invoices[id].discountAmount > 0)
                     => Cardinality(UsageEntries(c, id)) = 1
              /\ coupons[c].usedCount =
                   Cardinality({id \in DOMAIN invoices :
                                   invoices[id].exists /\ invoices[id].couponId = c})]_vars

\* ========================================================================
\* Invoices per service visit
\* ========================================================================
\* C37: at any time at most one stored invoice references a service visit.
C37_OneInvoicePerVisit ==
    \A i, j \in DOMAIN invoices :
        (/\ invoices[i].exists
         /\ invoices[j].exists
         /\ invoices[i].serviceVisitId = invoices[j].serviceVisitId)
          => i = j

\* ========================================================================
\* Part 12: DELETE /api/invoices/:id
\* ========================================================================
\* the rendered PDF is unlinked when the invoice names one that is on disk,
\* then the document is deleted
DeleteInvoice(id) ==
    LET invoice == Lookup(id)
    IN
    /\ IF ~invoice.exists
         THEN /\ resp' = Reply("deleteInvoice", "api", 404, id, None, 0)
              /\ UNCHANGED <<invoices, pdfFiles>>
         ELSE /\ pdfFiles' = IF invoice.pdfPath # None /\ invoice.pdfPath \in pdfFiles
                               THEN pdfFiles \ {invoice.pdfPath}
                               ELSE pdfFiles
              /\ invoices' = [invoices EXCEPT ![id] = NoDoc]
              /\ resp' = Reply("deleteInvoice", "api", 200, id, invoice.status, 0)
    /\ UNCHANGED <<visits, warranties, coupons, vehicles, customers, products, now, reqs>>

\* the store hands out an identifier once: no record names the new invoice yet
DeleteCreate ==
    \E newId \in InvoiceIds, items \in ItemLists, couponCode \in {None, "save1"} :
        /\ \A k \in 1..Len(warranties) : warranties[k].invoiceId # newId
        /\ \A c \in DOMAIN coupons : UsageEntries(c, newId) = {}
        /\ CreateInvoiceFromServiceVisit(newId, "V1", items, couponCode)

ApiDeleteInvoice == \E id \in InvoiceIds \cup {"I9"} : DeleteInvoice(id)

NextDelete ==
    \/ DeleteCreate
    \/ ApiApprove
    \/ ApiReject
    \/ ApiDeleteInvoice

SpecDelete == InitInvoice /\ [][NextDelete]_vars

\* C38: deleting a stored invoice is accepted at every status, and after the
\* deletion no Warranty record and no coupon usage-history entry names the
\* deleted invoice and the coupon's usedCount is one lower than before where
\* the invoice had redeemed it.
C38_DeleteLeavesNoReferences ==
    [][\A id \in DOMAIN invoices :
          (resp'.op = "deleteInvoice" /\ resp'.id = id /\ invoices[id].exists)
            => /\ resp'.code = 200
               /\ ~invoices'[id].exists
               /\ \A k \in 1..Len(warranties') : warranties'[k].invoiceId # id
               /\ \A c \in DOMAIN coupons' :
                    /\ \A n \in 1..Len(coupons'[c].usageHistory) :
                          coupons'[c].usageHistory[n].invoiceId # id
                    /\ invoices[id].couponId = c
                          => coupons'[c].usedCount = coupons[c].usedCount - 1]_vars

====
